---- MODULE Spec2Model ----
(***************************************************************************)
(* A model of the flashchain payment-channel core.                         *)
(*                                                                         *)
(*  Part I   StateManager (lightning/src/state/mod.rs): the channel map    *)
(*           behind a tokio RwLock, the update / create / close / get      *)
(*           handlers run by concurrent tasks, and the persistence calls.  *)
(*  Part II  state::ChannelState (lightning/src/state/channel_state.rs):   *)
(*           create_htlc and fulfill_htlc.                                 *)
(*  Part III channel::state::ChannelState (lightning/src/channel/state.rs):*)
(*           transfer, create_lock, unlock and expire_lock.                *)
(*                                                                         *)
(* Each part has its own specification; a specification keeps the          *)
(* variables of the other parts at their idle value.                       *)
(***************************************************************************)
EXTENDS Integers, Sequences, FiniteSets, TLC

VARIABLES
    \* ---- Part I: StateManager
    channel_states,     \* HashMap<H256, ChannelState> behind the RwLock
    update_log,         \* the updates persist_state_update made durable, in order
    persisted_channels, \* the snapshots persist_channel_state made durable
    pc,                 \* each task's position in the handler it runs
    op,                 \* each task's current call and its arguments
    result,             \* what each task's last call returned
    lockQ,              \* the RwLock's FIFO queue of waiting tasks
    rcount,             \* read guards each task holds
    ncalls,             \* calls made so far
    \* ---- Part II: state::ChannelState
    hs,                 \* the channel state
    hlast,              \* the last call, its arguments and what it returned
    hsteps,             \* calls made so far
    \* ---- Part III: channel::state::ChannelState
    cs,                 \* the channel state
    clast,              \* the last call, its arguments and what it returned
    csteps,             \* calls made so far
    \* ---- Part IV: PaymentProcessor and RoutingManager::send_payment
    pp,                 \* active_payments, payment_statuses, htlcs, results
    now,                \* the clock current_timestamp() reads, in seconds
    plast,              \* the last call, its arguments and what it returned
    psteps,             \* calls made so far
    plk,                \* the PaymentProcessor's four RwLocks
    ptask,              \* each task's call on the PaymentProcessor and the locks it has
    \* ---- Part V: PathFinder and RoutingManager::find_route
    pf,                 \* the PathFinder: nodes, channels, reliability_history
    rm,                 \* the RoutingManager: channels, active_routes
    pflast,             \* the last call, its arguments and what it returned
    pfsteps,            \* calls made so far
    pflk,               \* the RwLocks of the PathFinder and the RoutingManager
    pftask,             \* each task's call on them and where it stands
    \* ---- Part VI: Bridge, StateSync, ChannelManager, PeerManager, monitors
    bm,                 \* the Bridge's pending_transactions, the chain, the clock
    ss,                 \* the StateSync: channel_states, pending_updates
    cm,                 \* the ChannelManager's channels and each task's call
    pm,                 \* the PeerManager: peers, banned_peers, and the clock
    mon,                \* the background tasks and the shutdown signal
    glast,              \* the last call, its arguments and what it returned
    gsteps              \* calls made so far

smVars == <<channel_states, update_log, persisted_channels, pc, op, result,
            lockQ, rcount, ncalls>>
hVars == <<hs, hlast, hsteps>>
cVars == <<cs, clast, csteps>>
pVars == <<pp, now, plast, psteps, plk, ptask>>
fVars == <<pf, rm, pflast, pfsteps, pflk, pftask>>
gVars == <<bm, ss, cm, pm, mon, glast, gsteps>>
vars == <<smVars, hVars, cVars, pVars, fVars, gVars>>

(***************************************************************************)
(* Bounds of the model.                                                    *)
(***************************************************************************)
MaxCalls == 3       \* StateManager calls in one behaviour
MaxSeq == 2         \* largest sequence number an update carries
MaxHtlcOps == 3     \* create_htlc / fulfill_htlc calls in one behaviour
MaxAmount == 2      \* largest amount a call carries, largest initial balance
MaxLockOps == 2     \* channel::state calls in one behaviour
MaxHeight == 2      \* largest block height
MaxPayOps == 3      \* PaymentProcessor / send_payment calls in one behaviour
MaxHops == 2        \* hops of the longest route
MaxPathOps == 2     \* PathFinder calls in one behaviour
MaxPolicyHops == 2  \* largest max_hops of a routing policy
MaxSyncOps == 4     \* StateSync calls in one behaviour
MaxSyncSeq == 2     \* largest sequence number a StateSync update carries
MaxBridgeOps == 9   \* steps of the Bridge, the chain and the clock
MaxTxs == 2         \* transactions the Bridge submits
MaxChanOps == 6     \* steps of ChannelManager calls in one behaviour
MaxPeerOps == 8     \* steps of the PeerManager and its clock
MaxMonitorOps == 6  \* steps of the background tasks and their owner

(***************************************************************************)
(* Maps (HashMap) as functions with a finite domain.                       *)
(***************************************************************************)
EmptyMap == <<>>
MapInsert(m, k, v) == [x \in (DOMAIN m) \cup {k} |-> IF x = k THEN v ELSE m[x]]
MapRemove(m, k) == [x \in (DOMAIN m) \ {k} |-> m[x]]

RECURSIVE SumOver(_, _)
SumOver(f, S) ==
    IF S = {} THEN 0
    ELSE LET x == CHOOSE y \in S : TRUE IN f[x] + SumOver(f, S \ {x})

SeqToSet(s) == {s[i] : i \in 1..Len(s)}

(***************************************************************************)
(* Part I.  StateManager                                                   *)
(***************************************************************************)
Tasks == {"t1", "t2"}
Channels == {"c1", "c2"}
Addresses == {"A", "B"}
ParticipantLists == {<<"A", "B">>, <<"A", "C">>}
StateHashes == {"h1"}

\* A signature is a byte string; Sign(a, s) is the one that is a valid
\* signature of address a over state hash s, Junk is any other byte string.
Sign(a, s) == <<a, s>>
Junk == <<"junk", "junk">>
IsValidSignature(a, s, sig) == sig = Sign(a, s)

\* The signature maps an update is submitted with: signed by both, B's
\* signature not valid, no signature at all.
FullySigned == [a \in {"A", "B"} |-> "valid"]
BadlySigned == [a \in {"A", "B"} |-> IF a = "A" THEN "valid" ELSE "junk"]
SignatureMaps == {FullySigned, BadlySigned, EmptyMap}
MakeSignatures(m, s) ==
    [a \in DOMAIN m |-> IF m[a] = "valid" THEN Sign(a, s) ELSE Junk]

\* ChannelState::new
ChannelState_new(channel_id, participants, capacity) ==
    [channel_id |-> channel_id,
     participants |-> participants,
     capacity |-> capacity,
     status |-> "Created",
     sequence |-> 0,
     last_update |-> 0]

\* ChannelState::is_valid_transition
is_valid_transition(self, update) == TRUE

\* apply_update without its own sequence check: the write section would
\* rely on the check verify_state_update made before the lock was taken
apply_update_unchecked(self, update) ==
    [err |-> "Ok",
     state |-> [self EXCEPT !.sequence = update.sequence,
                            !.last_update = update.timestamp]]

\* ChannelState::apply_update
apply_update(self, update) ==
    IF update.sequence # self.sequence + 1
    THEN [err |-> "InvalidTransition", state |-> self]
    ELSE IF ~is_valid_transition(self, update)
    THEN [err |-> "InvalidTransition", state |-> self]
    ELSE [err |-> "Ok",
          state |-> [self EXCEPT !.sequence = update.sequence,
                                 !.last_update = update.timestamp]]

\* close that also closes a channel that is not Active: every status but
\* Closing moves to Closing
close_from_any(self) ==
    IF self.status = "Closing"
    THEN [err |-> "Ok", state |-> [self EXCEPT !.status = "Closed"]]
    ELSE [err |-> "Ok", state |-> [self EXCEPT !.status = "Closing"]]

\* ChannelState::close
close(self) ==
    IF self.status = "Active"
    THEN [err |-> "Ok", state |-> [self EXCEPT !.status = "Closing"]]
    ELSE IF self.status = "Closing"
    THEN [err |-> "Ok", state |-> [self EXCEPT !.status = "Closed"]]
    ELSE [err |-> "InvalidTransition", state |-> self]

\* ChannelState::verify_signature
verify_signature(signer, state, signature) == TRUE

\* StatePersistence::persist_state_update: the update is appended to the
\* durable log, or the call fails and the log is as it was.
persist_state_update(log, update, ok) ==
    IF ok THEN Append(log, update) ELSE log

\* StatePersistence::persist_channel_state: the snapshot replaces the stored
\* one, or the call fails and the store is as it was.
persist_channel_state(store, state, ok) ==
    IF ok THEN MapInsert(store, state.channel_id, state) ELSE store

\* StateManager::verify_signatures, on the map the read guard shows
verify_signatures(states, update) ==
    IF update.channel_id \notin DOMAIN states
    THEN [err |-> "NotFound", value |-> FALSE]
    ELSE LET current_state == states[update.channel_id] IN
         IF \E i \in 1..Len(current_state.participants) :
                current_state.participants[i] \notin DOMAIN update.signatures
         THEN [err |-> "Ok", value |-> FALSE]
         ELSE IF \E a \in DOMAIN update.signatures :
                    ~verify_signature(a, update.new_state, update.signatures[a])
         THEN [err |-> "Ok", value |-> FALSE]
         ELSE [err |-> "Ok", value |-> TRUE]

\* StateManager::verify_state_update, first part: the lookup and the sequence
\* check made under the first read guard (lines 166-172)
verify_sequence(states, update) ==
    IF update.channel_id \notin DOMAIN states THEN "NotFound"
    ELSE IF update.sequence # states[update.channel_id].sequence + 1
    THEN "InvalidTransition"
    ELSE "Ok"

\* StateManager::verify_state_update, second part: the signature check
\* (lines 175-179)
verify_state_update_signatures(states, update) ==
    LET r == verify_signatures(states, update) IN
    IF r.err # "Ok" THEN r.err
    ELSE IF ~r.value THEN "InvalidTransition"
    ELSE "Ok"

\* StateManager::update_channel_state from the write lock on (lines 68-81)
update_channel_state_commit(states, log, channel_id, update, persist_ok) ==
    IF channel_id \notin DOMAIN states
    THEN [err |-> "NotFound", states |-> states, log |-> log]
    ELSE LET r == apply_update(states[channel_id], update)
             applied == [states EXCEPT ![channel_id] = r.state]
         IN  IF r.err # "Ok"
             THEN [err |-> r.err, states |-> states, log |-> log]
             ELSE [err |-> IF persist_ok THEN "Ok" ELSE "PersistenceError",
                   states |-> applied,
                   log |-> persist_state_update(log, update, persist_ok)]

\* StateManager::create_channel_state under the write lock
create_channel_state(states, store, channel_id, participants, capacity, persist_ok) ==
    IF channel_id \in DOMAIN states
    THEN [err |-> "InvalidTransition", states |-> states, store |-> store]
    ELSE LET state == ChannelState_new(channel_id, participants, capacity) IN
         [err |-> IF persist_ok THEN "Ok" ELSE "PersistenceError",
          states |-> MapInsert(states, channel_id, state),
          store |-> persist_channel_state(store, state, persist_ok)]

\* StateManager::close_channel_state under the write lock
close_channel_state(states, store, channel_id, persist_ok) ==
    IF channel_id \notin DOMAIN states
    THEN [err |-> "NotFound", states |-> states, store |-> store]
    ELSE LET r == close(states[channel_id])
             closed == [states EXCEPT ![channel_id] = r.state]
         IN  IF r.err # "Ok"
             THEN [err |-> r.err, states |-> states, store |-> store]
             ELSE IF ~persist_ok
             THEN [err |-> "PersistenceError", states |-> closed, store |-> store]
             ELSE [err |-> "Ok",
                   states |-> MapRemove(closed, channel_id),
                   store |-> persist_channel_state(store, r.state, TRUE)]

\* StateManager::get_channel_state under the read lock
get_channel_state(states, channel_id) ==
    IF channel_id \in DOMAIN states
    THEN [err |-> "Ok", value |-> states[channel_id]]
    ELSE [err |-> "NotFound", value |-> [status |-> "None"]]

(***************************************************************************)
(* tokio::sync::RwLock: requests queue first-in first-out; the request at  *)
(* the head is granted when it is compatible with the guards held, and no  *)
(* request behind it is granted before it.  The write sections of the      *)
(* handlers hold the lock from grant to return, so grant, body and release *)
(* are one step; the first read guard of verify_state_update is held over  *)
(* the second read request.                                                *)
(***************************************************************************)
NoReaders == \A u \in Tasks : rcount[u] = 0
AtHead(t) == Len(lockQ) > 0 /\ Head(lockQ) = t
ReadGranted(t) == AtHead(t)
WriteGranted(t) == AtHead(t) /\ NoReaders

NoOp == [kind |-> "none"]
NoResult == [kind |-> "none", err |-> "none"]
Returned(k, e) == [kind |-> k, err |-> e]

\* The calls tasks make.  An update names its channel twice, as the argument
\* channel_id and as update.channel_id: verify_state_update reads the
\* second, the write section the first.
UpdateCalls ==
    {[kind |-> "update", channel_id |-> c,
      update |-> [channel_id |-> uc, sequence |-> n, timestamp |-> 1,
                  new_state |-> s, signatures |-> MakeSignatures(m, s)]] :
        c \in Channels, uc \in Channels, n \in 1..MaxSeq,
        s \in StateHashes, m \in SignatureMaps}
CreateCalls ==
    {[kind |-> "create", channel_id |-> c, participants |-> p, capacity |-> 10] :
        c \in Channels, p \in ParticipantLists}
CloseCalls == {[kind |-> "close", channel_id |-> c] : c \in Channels}
GetCalls == {[kind |-> "get", channel_id |-> c] : c \in Channels}

\* The channel maps load_persisted_states can install at construction.
LoadedStatuses == {"Active", "Closing"}
LoadedMaps ==
    {EmptyMap} \cup
    {MapInsert(EmptyMap, "c1",
               [ChannelState_new("c1", <<"A", "B">>, 10) EXCEPT !.status = st]) :
        st \in LoadedStatuses}

HIdle == hs = [status |-> "None"] /\ hlast = NoOp /\ hsteps = 0
CIdle == cs = [status |-> "None"] /\ clast = NoOp /\ csteps = 0
PLocksIdle == plk = <<>> /\ ptask = <<>>
FIdle ==
    /\ pf = [status |-> "None"] /\ rm = [status |-> "None"]
    /\ pflast = NoOp /\ pfsteps = 0
    /\ pflk = <<>> /\ pftask = <<>>
GIdle ==
    /\ bm = [status |-> "None"] /\ ss = [status |-> "None"]
    /\ cm = [status |-> "None"] /\ pm = [status |-> "None"]
    /\ mon = [status |-> "None"] /\ glast = NoOp /\ gsteps = 0
PIdle ==
    /\ pp = [status |-> "None"] /\ now = 0 /\ plast = NoOp /\ psteps = 0
    /\ PLocksIdle

\* No task has called yet and the lock is free.
TasksIdle ==
    /\ pc = [t \in Tasks |-> "idle"]
    /\ op = [t \in Tasks |-> NoOp]
    /\ result = [t \in Tasks |-> NoResult]
    /\ lockQ = <<>>
    /\ rcount = [t \in Tasks |-> 0]
    /\ ncalls = 0

SMIdle ==
    /\ channel_states = EmptyMap
    /\ update_log = <<>>
    /\ persisted_channels = EmptyMap
    /\ TasksIdle

\* StateManager::new
SMInit ==
    /\ GIdle
    /\ channel_states \in LoadedMaps
    /\ update_log = <<>>
    /\ persisted_channels = channel_states
    /\ TasksIdle
    /\ HIdle
    /\ CIdle
    /\ PIdle
    /\ FIdle

\* A step of the StateManager leaves the other parts alone.
SMFrame == UNCHANGED <<hVars, cVars, pVars, fVars, gVars>>

Idle(t) == pc[t] \in {"idle", "done"}

\* A task enters a handler and makes the handler's first lock request.
Enter(t, call, at) ==
    /\ Idle(t)
    /\ ncalls < MaxCalls
    /\ ncalls' = ncalls + 1
    /\ op' = [op EXCEPT ![t] = call]
    /\ result' = [result EXCEPT ![t] = NoResult]
    /\ pc' = [pc EXCEPT ![t] = at]
    /\ lockQ' = Append(lockQ, t)
    /\ UNCHANGED <<channel_states, update_log, persisted_channels, rcount>>
    /\ SMFrame

Return(t, e) ==
    /\ pc' = [pc EXCEPT ![t] = "done"]
    /\ result' = [result EXCEPT ![t] = Returned(op[t].kind, e)]
    /\ op' = [op EXCEPT ![t] = NoOp]

\* update_channel_state is called: verify_state_update asks for its read guard
CallUpdate(t) == \E call \in UpdateCalls : Enter(t, call, "u_wait_r1")

\* verify_state_update gets the read guard and checks the sequence number
UpdateVerifySequence(t) ==
    /\ SMFrame
    /\ pc[t] = "u_wait_r1"
    /\ ReadGranted(t)
    /\ lockQ' = Tail(lockQ)
    /\ LET e == verify_sequence(channel_states, op[t].update) IN
        IF e # "Ok"
        THEN /\ Return(t, e)
             /\ UNCHANGED rcount
        ELSE /\ pc' = [pc EXCEPT ![t] = "u_r1"]
             /\ rcount' = [rcount EXCEPT ![t] = 1]
             /\ UNCHANGED <<op, result>>
    /\ UNCHANGED <<channel_states, update_log, persisted_channels, ncalls>>

\* verify_signatures asks for a second read guard while the first is held
UpdateRequestSignatures(t) ==
    /\ SMFrame
    /\ pc[t] = "u_r1"
    /\ pc' = [pc EXCEPT ![t] = "u_wait_r2"]
    /\ lockQ' = Append(lockQ, t)
    /\ UNCHANGED <<channel_states, update_log, persisted_channels, op, result,
                   rcount, ncalls>>

\* verify_signatures gets its guard and checks; both guards are then dropped
UpdateVerifySignatures(t) ==
    /\ SMFrame
    /\ pc[t] = "u_wait_r2"
    /\ ReadGranted(t)
    /\ lockQ' = Tail(lockQ)
    /\ rcount' = [rcount EXCEPT ![t] = 0]
    /\ LET e == verify_state_update_signatures(channel_states, op[t].update) IN
        IF e # "Ok"
        THEN Return(t, e)
        ELSE /\ pc' = [pc EXCEPT ![t] = "u_verified"]
             /\ UNCHANGED <<op, result>>
    /\ UNCHANGED <<channel_states, update_log, persisted_channels, ncalls>>

\* update_channel_state asks for the write lock
UpdateRequestWrite(t) ==
    /\ SMFrame
    /\ pc[t] = "u_verified"
    /\ pc' = [pc EXCEPT ![t] = "u_wait_w"]
    /\ lockQ' = Append(lockQ, t)
    /\ UNCHANGED <<channel_states, update_log, persisted_channels, op, result,
                   rcount, ncalls>>

\* update_channel_state gets the write lock, applies, persists and returns
UpdateCommit(t) ==
    /\ SMFrame
    /\ pc[t] = "u_wait_w"
    /\ WriteGranted(t)
    /\ lockQ' = Tail(lockQ)
    /\ \E persist_ok \in BOOLEAN :
        LET r == update_channel_state_commit(channel_states, update_log,
                                             op[t].channel_id, op[t].update,
                                             persist_ok) IN
        /\ channel_states' = r.states
        /\ update_log' = r.log
        /\ Return(t, r.err)
    /\ UNCHANGED <<persisted_channels, rcount, ncalls>>

\* create_channel_state is called and asks for the write lock
CallCreate(t) == \E call \in CreateCalls : Enter(t, call, "c_wait_w")

\* create_channel_state gets the write lock, inserts, persists and returns
CreateCommit(t) ==
    /\ SMFrame
    /\ pc[t] = "c_wait_w"
    /\ WriteGranted(t)
    /\ lockQ' = Tail(lockQ)
    /\ \E persist_ok \in BOOLEAN :
        LET r == create_channel_state(channel_states, persisted_channels,
                                      op[t].channel_id, op[t].participants,
                                      op[t].capacity, persist_ok) IN
        /\ channel_states' = r.states
        /\ persisted_channels' = r.store
        /\ Return(t, r.err)
    /\ UNCHANGED <<update_log, rcount, ncalls>>

\* close_channel_state is called and asks for the write lock
CallClose(t) == \E call \in CloseCalls : Enter(t, call, "x_wait_w")

\* close_channel_state gets the write lock, closes, persists, removes, returns
CloseCommit(t) ==
    /\ SMFrame
    /\ pc[t] = "x_wait_w"
    /\ WriteGranted(t)
    /\ lockQ' = Tail(lockQ)
    /\ \E persist_ok \in BOOLEAN :
        LET r == close_channel_state(channel_states, persisted_channels,
                                     op[t].channel_id, persist_ok) IN
        /\ channel_states' = r.states
        /\ persisted_channels' = r.store
        /\ Return(t, r.err)
    /\ UNCHANGED <<update_log, rcount, ncalls>>

\* get_channel_state is called and asks for the read lock
CallGet(t) == \E call \in GetCalls : Enter(t, call, "g_wait_r")

\* get_channel_state gets the read lock, clones the state and returns
GetReturn(t) ==
    /\ SMFrame
    /\ pc[t] = "g_wait_r"
    /\ ReadGranted(t)
    /\ lockQ' = Tail(lockQ)
    /\ Return(t, get_channel_state(channel_states, op[t].channel_id).err)
    /\ UNCHANGED <<channel_states, update_log, persisted_channels, rcount,
                   ncalls>>

SMNext ==
    \E t \in Tasks :
        \/ CallUpdate(t)
        \/ UpdateVerifySequence(t)
        \/ UpdateRequestSignatures(t)
        \/ UpdateVerifySignatures(t)
        \/ UpdateRequestWrite(t)
        \/ UpdateCommit(t)
        \/ CallCreate(t)
        \/ CreateCommit(t)
        \/ CallClose(t)
        \/ CloseCommit(t)
        \/ CallGet(t)
        \/ GetReturn(t)

SpecSM == SMInit /\ [][SMNext]_vars


(***************************************************************************)
(* Part II.  state::ChannelState: create_htlc and fulfill_htlc             *)
(***************************************************************************)
\* 32-byte values, and a collision-free stand-in for Keccak-256 on them
H256 == {0, 1, 2}
keccak256(x) == (x + 1) % 3

HParticipants == <<"A", "B">>
\* The (sender, receiver) pairs calls are made with; C is no participant
HPairs == {<<"A", "B">>, <<"B", "A">>, <<"A", "A">>, <<"C", "A">>, <<"A", "C">>}
\* The hash locks calls are made with
HashLocks == {keccak256(0), keccak256(1)}
Amounts == 0..MaxAmount

\* ChannelState::generate_htlc_id: the hash of the four fields, which are
\* of fixed width, so two ids are equal exactly when the fields are
generate_htlc_id(sender, receiver, amount, hash_lock) ==
    <<sender, receiver, amount, hash_lock>>

\* ChannelState::verify_preimage
verify_preimage(hash_lock, preimage) == keccak256(preimage) = hash_lock

\* The sender's balance with the amount added to locked and not taken from
\* the free amount
lock_sender_funds_keeping_free(balance, amount, htlc_id) ==
    [amount |-> balance.amount,
     locked |-> balance.locked + amount,
     pending_htlcs |-> Append(balance.pending_htlcs, htlc_id)]

\* create_htlc's update of the sender's balance (lines 130-134)
lock_sender_funds(balance, amount, htlc_id) ==
    [amount |-> balance.amount - amount,
     locked |-> balance.locked + amount,
     pending_htlcs |-> Append(balance.pending_htlcs, htlc_id)]

\* ChannelState::create_htlc
create_htlc(self, sender, receiver, amount, hash_lock, timeout) ==
    IF sender \notin SeqToSet(self.participants)
          \/ receiver \notin SeqToSet(self.participants)
    THEN [err |-> "InvalidTransition", state |-> self]
    ELSE IF sender \notin DOMAIN self.balances
    THEN [err |-> "NotFound", state |-> self]
    ELSE IF self.balances[sender].amount < amount
    THEN [err |-> "InvalidTransition", state |-> self]
    ELSE LET htlc_id == generate_htlc_id(sender, receiver, amount, hash_lock)
             htlc == [id |-> htlc_id, sender |-> sender, receiver |-> receiver,
                      amount |-> amount, hash_lock |-> hash_lock,
                      timeout |-> timeout, status |-> "Pending"]
         IN  [err |-> "Ok",
              state |-> [self EXCEPT
                  !.balances[sender] = lock_sender_funds(@, amount, htlc_id),
                  !.htlcs = MapInsert(@, htlc_id, htlc)]]

\* ChannelState::fulfill_htlc.  U256 subtraction panics below zero; the
\* HTLC is by then marked Fulfilled.
fulfill_htlc(self, htlc_id, preimage) ==
    IF htlc_id \notin DOMAIN self.htlcs
    THEN [err |-> "NotFound", state |-> self]
    ELSE LET htlc == self.htlcs[htlc_id] IN
         IF htlc.status # "Pending"
         THEN [err |-> "InvalidTransition", state |-> self]
         ELSE IF ~verify_preimage(htlc.hash_lock, preimage)
         THEN [err |-> "InvalidTransition", state |-> self]
         ELSE LET marked == [self EXCEPT !.htlcs[htlc_id].status = "Fulfilled"]
                  debited ==
                      IF htlc.sender \in DOMAIN marked.balances
                      THEN [marked EXCEPT !.balances[htlc.sender] =
                              [@ EXCEPT !.locked = @ - htlc.amount,
                                        !.pending_htlcs =
                                            SelectSeq(@, LAMBDA i : i # htlc_id)]]
                      ELSE marked
                  credited ==
                      IF htlc.receiver \in DOMAIN debited.balances
                      THEN [debited EXCEPT !.balances[htlc.receiver].amount =
                                                @ + htlc.amount]
                      ELSE debited
              IN  IF htlc.sender \in DOMAIN marked.balances
                        /\ marked.balances[htlc.sender].locked < htlc.amount
                  THEN [err |-> "Panic", state |-> marked]
                  ELSE [err |-> "Ok", state |-> credited]

\* The channel states the HTLC calls start from: ChannelState::new with the
\* free balances then set, as the module's test sets them; no HTLCs, nothing
\* locked, and the balances within the capacity.
HInitialStates ==
    {[channel_id |-> "c1",
      participants |-> HParticipants,
      capacity |-> MaxAmount,
      balances |-> [a \in SeqToSet(HParticipants) |->
                        [amount |-> b[a], locked |-> 0, pending_htlcs |-> <<>>]],
      htlcs |-> EmptyMap,
      status |-> "Created",
      sequence |-> 0,
      last_update |-> 0] :
        b \in {f \in [SeqToSet(HParticipants) -> Amounts] :
                    f["A"] + f["B"] <= MaxAmount}}

HInit ==
    /\ GIdle
    /\ hs \in HInitialStates
    /\ hlast = NoOp
    /\ hsteps = 0
    /\ SMIdle
    /\ CIdle
    /\ PIdle
    /\ FIdle

HFrame == UNCHANGED <<smVars, cVars, pVars, fVars, gVars>>

\* An id no HTLC has: the id of an HTLC between A and C
AbsentHtlcId == generate_htlc_id("A", "C", 0, 0)

CreateHtlc ==
    /\ HFrame
    /\ hsteps < MaxHtlcOps
    /\ hsteps' = hsteps + 1
    /\ \E pair \in HPairs, amount \in Amounts, hash_lock \in HashLocks :
        LET sender == pair[1]
            receiver == pair[2]
            r == create_htlc(hs, sender, receiver, amount, hash_lock, 100) IN
        /\ hs' = r.state
        /\ hlast' = [kind |-> "create_htlc", sender |-> sender,
                     receiver |-> receiver, amount |-> amount,
                     hash_lock |-> hash_lock, err |-> r.err]

FulfillHtlc ==
    /\ HFrame
    /\ hsteps < MaxHtlcOps
    /\ hsteps' = hsteps + 1
    /\ \E htlc_id \in (DOMAIN hs.htlcs) \cup {AbsentHtlcId}, preimage \in H256 :
        LET r == fulfill_htlc(hs, htlc_id, preimage) IN
        /\ hs' = r.state
        /\ hlast' = [kind |-> "fulfill_htlc", htlc_id |-> htlc_id,
                     preimage |-> preimage, err |-> r.err]

HNext == CreateHtlc \/ FulfillHtlc

SpecHtlc == HInit /\ [][HNext]_vars

\* ---- ChannelState::close on its own, from every status
\* enum ChannelStatus
ChannelStatuses == {"Created", "Active", "Closing", "Closed", "Disputed"}

\* The channel states close() is called on: any status, any sequence number
CloseInitialStates ==
    {[s EXCEPT !.status = st, !.sequence = n] :
        s \in HInitialStates, st \in ChannelStatuses, n \in 0..MaxSeq}

CloseInit ==
    /\ GIdle
    /\ hs \in CloseInitialStates
    /\ hlast = NoOp
    /\ hsteps = 0
    /\ SMIdle
    /\ CIdle
    /\ PIdle
    /\ FIdle

CloseChannel ==
    /\ HFrame
    /\ hsteps < MaxHtlcOps
    /\ hsteps' = hsteps + 1
    /\ LET r == close(hs) IN
        /\ hs' = r.state
        /\ hlast' = [kind |-> "close", err |-> r.err]

CloseNext == CloseChannel

SpecClose == CloseInit /\ [][CloseNext]_vars

(***************************************************************************)
(* Part III.  channel::state::ChannelState: balances and time locks        *)
(***************************************************************************)
ZeroAddress == "Z"                 \* Address::zero()
ZeroHash == 0                      \* H256::zero()
CParticipants == {"A", "B"}
\* The (from, to) pairs calls are made with; Z has no balance at first
CPairs == {<<"A", "B">>, <<"B", "A">>, <<"A", "A">>, <<ZeroAddress, "A">>,
           <<"A", ZeroAddress>>}
Heights == 0..MaxHeight

\* ChannelState::new (channel::state)
ChannelState_new_balances(initial_balances) ==
    IF SumOver(initial_balances, DOMAIN initial_balances) = 0
    THEN [err |-> "InvalidBalance", state |-> [status |-> "None"]]
    ELSE [err |-> "Ok",
          state |-> [balances |-> initial_balances,
                     locks |-> EmptyMap,
                     merkle_root |-> ZeroHash,
                     sequence_number |-> 0,
                     total_locked |-> 0]]

\* ChannelState::update_merkle_root
update_merkle_root(self) == [self EXCEPT !.merkle_root = ZeroHash]

\* ChannelState::generate_lock_id
generate_lock_id(sender, recipient, amount, secret_hash) == ZeroHash

\* ChannelState::verify_secret
verify_secret(secret_hash, secret) == TRUE

\* ChannelState::find_lock_sender
find_lock_sender(self, lock_id) == ZeroAddress

\* The entry of a is made if absent, and the amount is not added
CreditNothing(balances, a, amount) ==
    MapInsert(balances, a, IF a \in DOMAIN balances THEN balances[a] ELSE 0)

\* balances.entry(a).or_insert(0) += amount
Credit(balances, a, amount) ==
    MapInsert(balances, a,
              (IF a \in DOMAIN balances THEN balances[a] ELSE 0) + amount)

\* ChannelState::transfer
transfer(self, from, to, amount) ==
    IF from \notin DOMAIN self.balances
    THEN [err |-> "MissingParticipant", state |-> self]
    ELSE IF amount > self.balances[from]
    THEN [err |-> "InvalidBalance", state |-> self]
    ELSE LET debited == [self.balances EXCEPT ![from] = @ - amount] IN
         [err |-> "Ok",
          state |-> update_merkle_root(
              [self EXCEPT !.balances = Credit(debited, to, amount),
                           !.sequence_number = @ + 1])]

\* ChannelState::create_lock
create_lock(self, sender, recipient, amount, expiration_height, secret_hash) ==
    IF sender \notin DOMAIN self.balances
    THEN [err |-> "MissingParticipant", state |-> self]
    ELSE IF amount > self.balances[sender]
    THEN [err |-> "InvalidBalance", state |-> self]
    ELSE LET lock_id == generate_lock_id(sender, recipient, amount, secret_hash)
             lock == [lock_id |-> lock_id, amount |-> amount,
                      expiration_height |-> expiration_height,
                      recipient |-> recipient, secret_hash |-> secret_hash]
         IN  IF lock_id \in DOMAIN self.locks
             THEN [err |-> "LockExists", state |-> self]
             ELSE [err |-> "Ok",
                   state |-> update_merkle_root(
                       [self EXCEPT !.balances[sender] = @ - amount,
                                    !.total_locked = @ + amount,
                                    !.locks = MapInsert(@, lock_id, lock),
                                    !.sequence_number = @ + 1])]

\* ChannelState::unlock
unlock(self, lock_id, secret) ==
    IF lock_id \notin DOMAIN self.locks
    THEN [err |-> "InvalidLock", state |-> self]
    ELSE LET lock == self.locks[lock_id] IN
         IF ~verify_secret(lock.secret_hash, secret)
         THEN [err |-> "InvalidLock", state |-> self]
         ELSE [err |-> "Ok",
               state |-> update_merkle_root(
                   [self EXCEPT
                       !.balances = Credit(@, lock.recipient, lock.amount),
                       !.total_locked = @ - lock.amount,
                       !.locks = MapRemove(@, lock_id),
                       !.sequence_number = @ + 1])]

\* expire_lock with the height test made strict: a lock cannot be expired at
\* its expiration height, only above it
expire_lock_above_expiration(self, lock_id, current_height) ==
    IF lock_id \notin DOMAIN self.locks
    THEN [err |-> "InvalidLock", state |-> self]
    ELSE LET lock == self.locks[lock_id] IN
         IF current_height <= lock.expiration_height
         THEN [err |-> "InvalidLock", state |-> self]
         ELSE LET sender == find_lock_sender(self, lock_id) IN
              [err |-> "Ok",
               state |-> update_merkle_root(
                   [self EXCEPT
                       !.balances = Credit(@, sender, lock.amount),
                       !.total_locked = @ - lock.amount,
                       !.locks = MapRemove(@, lock_id),
                       !.sequence_number = @ + 1])]

\* ChannelState::expire_lock
expire_lock(self, lock_id, current_height) ==
    IF lock_id \notin DOMAIN self.locks
    THEN [err |-> "InvalidLock", state |-> self]
    ELSE LET lock == self.locks[lock_id] IN
         IF current_height < lock.expiration_height
         THEN [err |-> "InvalidLock", state |-> self]
         ELSE LET sender == find_lock_sender(self, lock_id) IN
              [err |-> "Ok",
               state |-> update_merkle_root(
                   [self EXCEPT
                       !.balances = Credit(@, sender, lock.amount),
                       !.total_locked = @ - lock.amount,
                       !.locks = MapRemove(@, lock_id),
                       !.sequence_number = @ + 1])]

CInit ==
    /\ GIdle
    /\ \E b \in [CParticipants -> Amounts] :
        /\ ChannelState_new_balances(b).err = "Ok"
        /\ cs = ChannelState_new_balances(b).state
    /\ clast = NoOp
    /\ csteps = 0
    /\ SMIdle
    /\ HIdle
    /\ PIdle
    /\ FIdle

CFrame == UNCHANGED <<smVars, hVars, pVars, fVars, gVars>>

CStep ==
    /\ CFrame
    /\ csteps < MaxLockOps
    /\ csteps' = csteps + 1

Transfer ==
    /\ CStep
    /\ \E pair \in CPairs, amount \in Amounts :
        LET from == pair[1]
            to == pair[2]
            r == transfer(cs, from, to, amount) IN
        /\ cs' = r.state
        /\ clast' = [kind |-> "transfer", from |-> from, to |-> to,
                     amount |-> amount, err |-> r.err]

CreateLock ==
    /\ CStep
    /\ \E pair \in CPairs, amount \in Amounts,
          expiration_height \in {1, MaxHeight}, secret_hash \in HashLocks :
        LET sender == pair[1]
            recipient == pair[2]
            r == create_lock(cs, sender, recipient, amount, expiration_height,
                             secret_hash) IN
        /\ cs' = r.state
        /\ clast' = [kind |-> "create_lock", sender |-> sender,
                     recipient |-> recipient, amount |-> amount,
                     expiration_height |-> expiration_height,
                     secret_hash |-> secret_hash, err |-> r.err]

Unlock ==
    /\ CStep
    /\ \E lock_id \in {ZeroHash, keccak256(ZeroHash)}, secret \in H256 :
        LET r == unlock(cs, lock_id, secret) IN
        /\ cs' = r.state
        /\ clast' = [kind |-> "unlock", lock_id |-> lock_id, secret |-> secret,
                     err |-> r.err]

ExpireLock ==
    /\ CStep
    /\ \E lock_id \in {ZeroHash, keccak256(ZeroHash)}, current_height \in Heights :
        LET r == expire_lock(cs, lock_id, current_height) IN
        /\ cs' = r.state
        /\ clast' = [kind |-> "expire_lock", lock_id |-> lock_id,
                     current_height |-> current_height, err |-> r.err]

CNext == Transfer \/ CreateLock \/ Unlock \/ ExpireLock

SpecLock == CInit /\ [][CNext]_vars

(***************************************************************************)
(* Part IV.  routing::payment::PaymentProcessor and                        *)
(* RoutingManager::send_payment.  Every PaymentProcessor call that writes  *)
(* holds the write lock of payment_statuses from before its first write    *)
(* until it returns, so the bodies of two such calls never overlap and a   *)
(* PaymentProcessor call is one step; send_payment is a step for each of   *)
(* the PaymentProcessor calls it awaits.                                   *)
(***************************************************************************)
PaymentHashes == {1, 2}
PaymentTimeout == 300              \* seconds an active payment may wait
Times == {0, PaymentTimeout, PaymentTimeout + 1}
Reasons == {"Test failure"}

\* A Route of n hops; hop i goes through channel i
RouteOf(n) ==
    [path |-> [i \in 1..n |-> i],
     channels |-> [i \in 1..n |->
                      [channel_id |-> i, amount |-> 1, fee |-> 1, timelock |-> 1]],
     total_amount |-> 1 + n,
     total_fees |-> n,
     total_timelock |-> n]
Routes == {RouteOf(n) : n \in 0..MaxHops}

\* PaymentProcessor::new
PaymentProcessor_new ==
    [active_payments |-> EmptyMap,
     payment_statuses |-> EmptyMap,
     htlcs |-> EmptyMap,
     results |-> EmptyMap]

\* status_tx.send: new() keeps the sender and drops the receiver of the
\* channel it makes, so the channel is closed and every send fails
status_tx_send(payment_hash, status) == "SendError"

\* init_payment without the check for a payment in progress
init_payment_unchecked(self, payment_info) ==
    [err |-> "Ok",
     state |-> [self EXCEPT
         !.active_payments = MapInsert(@, payment_info.payment_hash, payment_info),
         !.payment_statuses = MapInsert(@, payment_info.payment_hash, "Pending"),
         !.htlcs = MapInsert(@, payment_info.payment_hash, <<>>)]]

\* PaymentProcessor::init_payment
init_payment(self, payment_info) ==
    LET h == payment_info.payment_hash IN
    IF h \in DOMAIN self.active_payments
    THEN [err |-> "PaymentFailed", state |-> self]
    ELSE [err |-> "Ok",
          state |-> [self EXCEPT
              !.active_payments = MapInsert(@, h, payment_info),
              !.payment_statuses = MapInsert(@, h, "Pending"),
              !.htlcs = MapInsert(@, h, <<>>)]]

\* PaymentProcessor::get_payment_info
get_payment_info(self, payment_hash) ==
    IF payment_hash \in DOMAIN self.active_payments
    THEN [err |-> "Ok", value |-> self.active_payments[payment_hash]]
    ELSE [err |-> "PaymentFailed", value |-> NoOp]

\* PaymentProcessor::process_hop; hop_index counts from 0
PaymentProcessor_process_hop(self, payment_hash, hop_index, current_time) ==
    LET info == get_payment_info(self, payment_hash) IN
    IF info.err # "Ok"
    THEN [err |-> info.err, state |-> self]
    ELSE IF hop_index >= Len(info.value.route.channels)
    THEN [err |-> "PaymentFailed", state |-> self]
    ELSE LET hop == info.value.route.channels[hop_index + 1]
             htlc == [channel_id |-> hop.channel_id, amount |-> hop.amount,
                      expiry |-> current_time + hop.timelock,
                      hash |-> payment_hash]
         IN  IF payment_hash \notin DOMAIN self.htlcs
             THEN [err |-> "PaymentFailed", state |-> self]
             ELSE LET written == [self EXCEPT
                          !.htlcs[payment_hash] = Append(@, htlc),
                          !.payment_statuses =
                              MapInsert(@, payment_hash, "InFlight")]
                  IN  IF status_tx_send(payment_hash, "InFlight") # "Ok"
                      THEN [err |-> "PaymentFailed", state |-> written]
                      ELSE [err |-> "Ok", state |-> written]

\* PaymentProcessor::complete_payment: the status is written before the
\* payment is looked up
complete_payment(self, payment_hash, current_time) ==
    LET marked == [self EXCEPT
            !.payment_statuses = MapInsert(@, payment_hash, "Success")] IN
    IF payment_hash \notin DOMAIN self.active_payments
    THEN [err |-> "PaymentFailed", state |-> marked]
    ELSE LET payment_info == self.active_payments[payment_hash]
             recorded == [marked EXCEPT
                 !.active_payments = MapRemove(@, payment_hash),
                 !.results = MapInsert(@, payment_hash,
                     [status |-> "Success", preimage |-> "None",
                      failure_reason |-> "None", completed_at |-> current_time,
                      fees_paid |-> payment_info.route.total_fees])]
         IN  IF status_tx_send(payment_hash, "Success") # "Ok"
             THEN [err |-> "PaymentFailed", state |-> recorded]
             ELSE [err |-> "Ok", state |-> recorded]

\* PaymentProcessor::fail_payment
fail_payment(self, payment_hash, reason, current_time) ==
    LET marked == [self EXCEPT
            !.payment_statuses = MapInsert(@, payment_hash, "Failed")] IN
    IF payment_hash \notin DOMAIN self.active_payments
    THEN [err |-> "PaymentFailed", state |-> marked]
    ELSE LET recorded == [marked EXCEPT
                 !.active_payments = MapRemove(@, payment_hash),
                 !.results = MapInsert(@, payment_hash,
                     [status |-> "Failed", preimage |-> "None",
                      failure_reason |-> reason, completed_at |-> current_time,
                      fees_paid |-> 0])]
         IN  IF status_tx_send(payment_hash, "Failed") # "Ok"
             THEN [err |-> "PaymentFailed", state |-> recorded]
             ELSE [err |-> "Ok", state |-> recorded]

\* The active payments cleanup_timed_out_payments collects
timed_out(self, current_time) ==
    {h \in DOMAIN self.active_payments :
        current_time > self.active_payments[h].timestamp + PaymentTimeout}

\* PaymentProcessor::cleanup_timed_out_payments.  The loop goes through the
\* collected payments in the hash map's order, of which first is the
\* first; it returns at the first send that fails.
cleanup_timed_out_payments(self, current_time, first) ==
    IF timed_out(self, current_time) = {}
    THEN [err |-> "Ok", state |-> self]
    ELSE LET swept == [self EXCEPT
                 !.payment_statuses = MapInsert(@, first, "TimedOut"),
                 !.active_payments = MapRemove(@, first)]
         IN  IF status_tx_send(first, "TimedOut") # "Ok"
             THEN [err |-> "PaymentFailed", state |-> swept]
             ELSE [err |-> "Ok",
                   state |-> [self EXCEPT
                       !.payment_statuses =
                           [h \in (DOMAIN @) \cup timed_out(self, current_time) |->
                               IF h \in timed_out(self, current_time)
                               THEN "TimedOut" ELSE @[h]],
                       !.active_payments =
                           [h \in (DOMAIN @) \ timed_out(self, current_time) |->
                               @[h]]]]

\* RoutingManager::process_hop
RoutingManager_process_hop(hop, payment_info) == "Success"

\* RoutingManager::handle_failed_payment
handle_failed_payment(self, route, payment_info) == self

\* The tasks that call send_payment, and in SpecPayLocks the processor
PTasks == {"p1", "p2"}
\* The task that calls send_payment next to the processor's own calls
SendTasks == {"p1"}
TaskIdle == [kind |-> "idle", got |-> 0]
InCall(t) == ptask[t].kind # "idle"

PInit ==
    /\ GIdle
    /\ pp = PaymentProcessor_new
    /\ now = 0
    /\ plast = NoOp
    /\ psteps = 0
    /\ plk = <<>>
    /\ ptask = [t \in PTasks |-> TaskIdle]
    /\ SMIdle
    /\ HIdle
    /\ CIdle
    /\ FIdle

PFrame == UNCHANGED <<smVars, hVars, cVars, fVars, gVars>>

PStep ==
    /\ PFrame
    /\ psteps < MaxPayOps
    /\ psteps' = psteps + 1
    /\ UNCHANGED <<now, plk, ptask>>

\* The clock moves on
Tick ==
    /\ PFrame
    /\ \E t \in Times : t > now /\ now' = t
    /\ UNCHANGED <<pp, plast, psteps, plk, ptask>>

InitPayment ==
    /\ PStep
    /\ \E h \in PaymentHashes, route \in Routes, ts \in {0, now} :
        LET r == init_payment(pp, [route |-> route, payment_hash |-> h,
                                   payment_secret |-> 0,
                                   amount |-> route.total_amount,
                                   timestamp |-> ts]) IN
        /\ pp' = r.state
        /\ plast' = [kind |-> "init_payment", payment_hash |-> h, err |-> r.err]

ProcessHop ==
    /\ PStep
    /\ \E h \in PaymentHashes, hop_index \in 0..MaxHops :
        LET r == PaymentProcessor_process_hop(pp, h, hop_index, now) IN
        /\ pp' = r.state
        /\ plast' = [kind |-> "process_hop", payment_hash |-> h,
                     hop_index |-> hop_index, err |-> r.err]

CompletePayment ==
    /\ PStep
    /\ \E h \in PaymentHashes :
        LET r == complete_payment(pp, h, now) IN
        /\ pp' = r.state
        /\ plast' = [kind |-> "complete_payment", payment_hash |-> h,
                     err |-> r.err]

FailPayment ==
    /\ PStep
    /\ \E h \in PaymentHashes, reason \in Reasons :
        LET r == fail_payment(pp, h, reason, now) IN
        /\ pp' = r.state
        /\ plast' = [kind |-> "fail_payment", payment_hash |-> h,
                     reason |-> reason, err |-> r.err]

CleanupTimedOut ==
    /\ PStep
    /\ \E first \in IF timed_out(pp, now) = {} THEN {0} ELSE timed_out(pp, now) :
        LET r == cleanup_timed_out_payments(pp, now, first) IN
        /\ pp' = r.state
        /\ plast' = [kind |-> "cleanup_timed_out_payments", err |-> r.err]

\* RoutingManager::send_payment step by step: the call, init_payment, then
\* process_hop for each hop of the route, then complete_payment.  Each is
\* awaited in turn and holds no lock between the awaits, so other calls
\* of the processor run, and the clock moves, in between.
SendReturn(t, h, route, err, value) ==
    /\ ptask' = [ptask EXCEPT ![t] = TaskIdle]
    /\ plast' = [kind |-> "send_payment", payment_hash |-> h,
                 hops |-> Len(route.channels), err |-> err,
                 value |-> value]

\* send_payment is called: it builds the PaymentInfo, reading the clock for
\* its timestamp, and calls init_payment, which waits for its locks
SendCall(t) ==
    /\ PFrame
    /\ ~InCall(t)
    /\ psteps < MaxPayOps
    /\ psteps' = psteps + 1
    /\ \E h \in PaymentHashes, route \in Routes :
        /\ ptask' = [ptask EXCEPT ![t] =
                        [kind |-> "send_payment", payment_hash |-> h,
                         route |-> route, got |-> 0, at |-> "init_payment",
                         timestamp |-> now]]
        /\ plast' = [kind |-> "send_payment_called", payment_hash |-> h,
                     err |-> "Ok"]
    /\ UNCHANGED <<pp, now, plk>>

\* init_payment has its locks and runs with the PaymentInfo of the call
SendStart(t) ==
    /\ PFrame
    /\ InCall(t)
    /\ ptask[t].at = "init_payment"
    /\ LET h == ptask[t].payment_hash
           route == ptask[t].route
           r == init_payment(pp, [route |-> route, payment_hash |-> h,
                                  payment_secret |-> 0,
                                  amount |-> route.total_amount,
                                  timestamp |-> ptask[t].timestamp])
       IN  /\ pp' = r.state
           /\ IF r.err # "Ok"
              THEN SendReturn(t, h, route, r.err, "None")
              ELSE /\ ptask' = [ptask EXCEPT ![t].at = "hops"]
                   /\ plast' = [kind |-> "send_payment_started",
                                payment_hash |-> h, err |-> "Ok"]
    /\ UNCHANGED <<now, psteps, plk>>

\* The loop body: process_hop for the next hop; got counts the hops done
SendHop(t) ==
    /\ PFrame
    /\ InCall(t)
    /\ ptask[t].at = "hops"
    /\ ptask[t].got < Len(ptask[t].route.channels)
    /\ LET status == RoutingManager_process_hop(
                         ptask[t].route.channels[ptask[t].got + 1], ptask[t]) IN
        IF status # "Success"
        THEN /\ pp' = handle_failed_payment(pp, ptask[t].route, ptask[t])
             /\ SendReturn(t, ptask[t].payment_hash, ptask[t].route, "Ok", status)
        ELSE /\ pp' = pp
             /\ ptask' = [ptask EXCEPT ![t].got = @ + 1]
             /\ plast' = plast
    /\ UNCHANGED <<now, psteps, plk>>

\* After the last hop: complete_payment, and send_payment returns
SendComplete(t) ==
    /\ PFrame
    /\ InCall(t)
    /\ ptask[t].at = "hops"
    /\ ptask[t].got = Len(ptask[t].route.channels)
    /\ LET r == complete_payment(pp, ptask[t].payment_hash, now) IN
        /\ pp' = r.state
        /\ IF r.err # "Ok"
           THEN SendReturn(t, ptask[t].payment_hash, ptask[t].route, r.err, "None")
           ELSE SendReturn(t, ptask[t].payment_hash, ptask[t].route, "Ok", "Success")
    /\ UNCHANGED <<now, psteps, plk>>

PNext ==
    \/ Tick
    \/ InitPayment
    \/ ProcessHop
    \/ CompletePayment
    \/ FailPayment
    \/ CleanupTimedOut
    \/ \E t \in SendTasks : SendCall(t)
    \/ \E t \in SendTasks : SendStart(t)
    \/ \E t \in SendTasks : SendHop(t)
    \/ \E t \in SendTasks : SendComplete(t)

SpecPay == PInit /\ [][PNext]_vars

(***************************************************************************)
(* The PaymentProcessor's calls with their lock acquisitions.  Each of the *)
(* four maps is behind its own tokio RwLock; a call takes its locks one    *)
(* after the other, runs its body and drops them all when it returns.      *)
(***************************************************************************)
PLocks == {"active_payments", "payment_statuses", "htlcs", "results"}

\* The lock requests a call makes, in the order the code makes them
LockPlan(kind) ==
    CASE kind = "init_payment" ->
            <<[lock |-> "active_payments", mode |-> "write"],
              [lock |-> "payment_statuses", mode |-> "write"],
              [lock |-> "htlcs", mode |-> "write"]>>
      [] kind = "process_hop" ->
            <<[lock |-> "payment_statuses", mode |-> "write"],
              [lock |-> "htlcs", mode |-> "write"],
              [lock |-> "active_payments", mode |-> "read"]>>
      [] kind \in {"complete_payment", "fail_payment"} ->
            <<[lock |-> "active_payments", mode |-> "write"],
              [lock |-> "payment_statuses", mode |-> "write"],
              [lock |-> "results", mode |-> "write"]>>
      [] kind = "cleanup_timed_out_payments" ->
            <<[lock |-> "active_payments", mode |-> "write"],
              [lock |-> "payment_statuses", mode |-> "write"]>>

\* The calls the tasks make: one payment over a route of one hop
LockedCalls ==
    {[kind |-> "init_payment", payment_hash |-> 1],
     [kind |-> "process_hop", payment_hash |-> 1],
     [kind |-> "complete_payment", payment_hash |-> 1],
     [kind |-> "fail_payment", payment_hash |-> 1],
     [kind |-> "cleanup_timed_out_payments", payment_hash |-> 1]}

\* The body a call runs once it has its locks
LockedBody(self, call, current_time) ==
    CASE call.kind = "init_payment" ->
            init_payment(self, [route |-> RouteOf(1),
                                payment_hash |-> call.payment_hash,
                                payment_secret |-> 0,
                                amount |-> RouteOf(1).total_amount,
                                timestamp |-> current_time])
      [] call.kind = "process_hop" ->
            PaymentProcessor_process_hop(self, call.payment_hash, 0, current_time)
      [] call.kind = "complete_payment" ->
            complete_payment(self, call.payment_hash, current_time)
      [] call.kind = "fail_payment" ->
            fail_payment(self, call.payment_hash, "Test failure", current_time)
      [] call.kind = "cleanup_timed_out_payments" ->
            cleanup_timed_out_payments(self, current_time, call.payment_hash)

FreeLock == [writer |-> "none", readers |-> {}, queue |-> <<>>]

LockedInit ==
    /\ GIdle
    /\ pp = PaymentProcessor_new
    /\ now = 0
    /\ plast = NoOp
    /\ psteps = 0
    /\ plk = [l \in PLocks |-> FreeLock]
    /\ ptask = [t \in PTasks |-> TaskIdle]
    /\ SMIdle
    /\ HIdle
    /\ CIdle
    /\ FIdle

\* The request a task waits on: the next one of its call's plan
Awaited(t) == LockPlan(ptask[t].kind)[ptask[t].got + 1]
HasAllLocks(t) == InCall(t) /\ ptask[t].got = Len(LockPlan(ptask[t].kind))
Waiting(t) == InCall(t) /\ ~HasAllLocks(t)

\* tokio's RwLock serves its waiters first in, first out: the request at
\* the head is granted when no writer holds the lock and, for a write, no
\* reader does
Grantable(t) ==
    /\ Waiting(t)
    /\ LET l == plk[Awaited(t).lock] IN
        /\ l.queue # <<>> /\ Head(l.queue) = t
        /\ l.writer = "none"
        /\ Awaited(t).mode = "write" => l.readers = {}

Enqueue(locks, l, t) == [locks EXCEPT ![l].queue = Append(@, t)]

\* A task calls and makes the call's first lock request
LockedCall(t) ==
    /\ PFrame
    /\ ~InCall(t)
    /\ psteps < MaxPayOps
    /\ psteps' = psteps + 1
    /\ \E call \in LockedCalls :
        /\ ptask' = [ptask EXCEPT ![t] = [kind |-> call.kind,
                                          payment_hash |-> call.payment_hash,
                                          got |-> 0]]
        /\ plk' = Enqueue(plk, LockPlan(call.kind)[1].lock, t)
    /\ UNCHANGED <<pp, now, plast>>

\* A task is granted the lock it waits on and requests its next one
LockedAcquire(t) ==
    /\ PFrame
    /\ Grantable(t)
    /\ LET req == Awaited(t)
           granted == [plk EXCEPT
               ![req.lock] = [writer |-> IF req.mode = "write" THEN t ELSE @.writer,
                              readers |-> IF req.mode = "read"
                                          THEN @.readers \cup {t} ELSE @.readers,
                              queue |-> Tail(@.queue)]]
           plan == LockPlan(ptask[t].kind)
       IN  /\ ptask' = [ptask EXCEPT ![t].got = @ + 1]
           /\ plk' = IF ptask[t].got + 1 < Len(plan)
                     THEN Enqueue(granted, plan[ptask[t].got + 2].lock, t)
                     ELSE granted
    /\ UNCHANGED <<pp, now, plast, psteps>>

\* A task that has its locks runs the body, drops the locks and returns
LockedReturn(t) ==
    /\ PFrame
    /\ HasAllLocks(t)
    /\ LET r == LockedBody(pp, ptask[t], now) IN
        /\ pp' = r.state
        /\ plast' = [kind |-> ptask[t].kind,
                     payment_hash |-> ptask[t].payment_hash, err |-> r.err]
    /\ plk' = [l \in PLocks |->
                 [writer |-> IF plk[l].writer = t THEN "none" ELSE plk[l].writer,
                  readers |-> plk[l].readers \ {t},
                  queue |-> plk[l].queue]]
    /\ ptask' = [ptask EXCEPT ![t] = TaskIdle]
    /\ UNCHANGED <<now, psteps>>

LockedNext ==
    \E t \in PTasks : LockedCall(t) \/ LockedAcquire(t) \/ LockedReturn(t)

SpecPayLocks == LockedInit /\ [][LockedNext]_vars

(***************************************************************************)
(* RoutingManager::send_payment step by step: init_payment, then           *)
(* process_hop for each hop of the route, then complete_payment; other     *)
(* tasks' send_payment calls run in between.                               *)
(***************************************************************************)
SendInit ==
    /\ GIdle
    /\ pp = PaymentProcessor_new
    /\ now = 0
    /\ plast = NoOp
    /\ psteps = 0
    /\ plk = <<>>
    /\ ptask = [t \in PTasks |-> TaskIdle]
    /\ SMIdle
    /\ HIdle
    /\ CIdle
    /\ FIdle

SendNext ==
    \E t \in PTasks :
        SendCall(t) \/ SendStart(t) \/ SendHop(t) \/ SendComplete(t)

SpecSend == SendInit /\ [][SendNext]_vars

(***************************************************************************)
(* Part V.  routing::path_finding::PathFinder.  A reliability is the       *)
(* fraction num / den.                                                     *)
(***************************************************************************)
MaxPathsReturned == 3              \* find_paths stops at this many paths
HistoryLimit == 100                \* outcomes kept for a channel
FeeDivisor == 1000000              \* fee rates are parts per million
TimelockWeight == 10
ReliabilityWeight == 1000
MaxCapacity == 5 * FeeDivisor      \* stands for U256::max_value()
PerfectReliability == [num |-> 1, den |-> 1]

\* PathFinder::new
PathFinder_new ==
    [nodes |-> EmptyMap, channels |-> EmptyMap, reliability_history |-> EmptyMap]

\* nodes.entry(address).or_insert_with(..).channels.insert(channel_id)
AddNodeChannel(nodes, address, channel_id) ==
    MapInsert(nodes, address,
              (IF address \in DOMAIN nodes THEN nodes[address] ELSE {})
                  \cup {channel_id})

\* The body of apply_route_hints's loop for one hint
apply_route_hint(self, hint) ==
    [self EXCEPT
        !.channels = MapInsert(@, hint.channel_id,
            [source |-> hint.source, target |-> hint.target,
             capacity |-> MaxCapacity, fee_rate |-> hint.fee_rate,
             timelock_delta |-> hint.timelock_delta,
             reliability |-> PerfectReliability]),
        !.nodes = AddNodeChannel(AddNodeChannel(@, hint.source, hint.channel_id),
                                 hint.target, hint.channel_id)]

\* PathFinder::apply_route_hints
RECURSIVE apply_route_hints(_, _)
apply_route_hints(self, hints) ==
    IF hints = <<>> THEN self
    ELSE apply_route_hints(apply_route_hint(self, Head(hints)), Tail(hints))

\* PathFinder::update_channel
update_channel(self, channel_id, capacity, fee_rate) ==
    IF channel_id \in DOMAIN self.channels
    THEN [self EXCEPT !.channels[channel_id].capacity = capacity,
                      !.channels[channel_id].fee_rate = fee_rate]
    ELSE self

\* The reliabilities num / den with den <= HistoryLimit, in lowest terms,
\* for which the f64 product (1.0 - reliability) * 1000.0 falls just below
\* the whole number the exact product is: 1.0 - 0.9 is 0.09999999999999998
\* in f64, the product 99.99999999999997 and the cast to u64 gives 99
F64BelowExact ==
    {<<4, 5>>, <<9, 10>>, <<11, 20>>, <<8, 25>>, <<14, 25>>, <<17, 25>>,
     <<23, 25>>, <<27, 40>>, <<31, 40>>, <<37, 40>>, <<17, 50>>, <<27, 50>>,
     <<33, 50>>, <<39, 50>>, <<7, 100>>, <<33, 100>>, <<67, 100>>,
     <<77, 100>>, <<79, 100>>, <<81, 100>>, <<89, 100>>, <<91, 100>>,
     <<93, 100>>}

\* ((1.0 - reliability) * 1000.0) as u64, computed in f64 and truncated
reliability_cost(reliability) ==
    LET exact == ((reliability.den - reliability.num) * ReliabilityWeight)
                     \div reliability.den
    IN  IF \E f \in F64BelowExact :
              reliability.num * f[2] = reliability.den * f[1]
        THEN exact - 1
        ELSE exact

\* What one channel adds to the cost of a path
channel_cost(channel, amount) ==
    (amount * channel.fee_rate) \div FeeDivisor
        + channel.timelock_delta * TimelockWeight
        + reliability_cost(channel.reliability)

\* PathFinder::calculate_path_cost
RECURSIVE calculate_path_cost(_, _, _)
calculate_path_cost(path, amount, channels) ==
    IF path = <<>> THEN 0
    ELSE (IF Head(path) \in DOMAIN channels
          THEN channel_cost(channels[Head(path)], amount) ELSE 0)
         + calculate_path_cost(Tail(path), amount, channels)

\* An expansion that skips no channel for its capacity
ExpansionsAnyCapacity(self, current, visited, max_hops) ==
    IF current.node \notin DOMAIN self.nodes THEN {}
    ELSE
    {[node |-> IF self.channels[c].source = current.node
               THEN self.channels[c].target ELSE self.channels[c].source,
      cost |-> calculate_path_cost(Append(current.path, c), current.capacity,
                                   self.channels),
      capacity |-> current.capacity,
      path |-> Append(current.path, c)] :
        c \in {c \in self.nodes[current.node] \cap DOMAIN self.channels :
                 /\ ~(Len(current.path) >= max_hops)
                 /\ (IF self.channels[c].source = current.node
                     THEN self.channels[c].target ELSE self.channels[c].source)
                        \notin visited}}

\* The PathStates find_paths pushes when it expands current
Expansions(self, current, visited, max_hops) ==
    IF current.node \notin DOMAIN self.nodes THEN {}
    ELSE
    {[node |-> IF self.channels[c].source = current.node
               THEN self.channels[c].target ELSE self.channels[c].source,
      cost |-> calculate_path_cost(Append(current.path, c), current.capacity,
                                   self.channels),
      capacity |-> current.capacity,
      path |-> Append(current.path, c)] :
        c \in {c \in self.nodes[current.node] \cap DOMAIN self.channels :
                 /\ ~(self.channels[c].capacity < current.capacity)
                 /\ ~(Len(current.path) >= max_hops)
                 /\ (IF self.channels[c].source = current.node
                     THEN self.channels[c].target ELSE self.channels[c].source)
                        \notin visited}}

\* The turns of find_paths's while loop that wait for no lock: the pops of
\* PathStates at the target or at a visited node.  The heap pops a PathState
\* of least cost; which one of several of the same cost depends on the hash
\* sets' order.  The turns end at a PathState to expand, marked visited, or
\* with the end of the loop.
NoPathState == [node |-> "none", cost |-> 0, capacity |-> 0, path |-> <<>>]
RECURSIVE pop_until_expansion(_, _, _, _)
pop_until_expansion(target, queue, visited, paths) ==
    IF queue = {}
    THEN {[done |-> TRUE, current |-> NoPathState, queue |-> {},
           visited |-> visited, paths |-> paths]}
    ELSE UNION {
        LET rest == queue \ {current} IN
        IF current.node = target
        THEN IF Len(paths) + 1 >= MaxPathsReturned
             THEN {[done |-> TRUE, current |-> NoPathState, queue |-> rest,
                    visited |-> visited,
                    paths |-> Append(paths, current.path)]}
             ELSE pop_until_expansion(target, rest, visited,
                                      Append(paths, current.path))
        ELSE IF current.node \in visited
        THEN pop_until_expansion(target, rest, visited, paths)
        ELSE {[done |-> FALSE, current |-> current, queue |-> rest,
               visited |-> visited \cup {current.node}, paths |-> paths]}
        : current \in {s \in queue : \A o \in queue : s.cost <= o.cost}}

\* What find_paths returns when its loop has ended with paths
find_paths_result(paths) ==
    IF paths = <<>> THEN [err |-> "NoRoute", value |-> <<>>]
                    ELSE [err |-> "Ok", value |-> paths]

\* A push that never lets go of an entry
push_result_keeping_all(history, success) == Append(history, success)

\* history.push(success), and the oldest entry goes when there are more
\* than HistoryLimit
push_result(history, success) ==
    IF Len(history) + 1 > HistoryLimit
    THEN Tail(Append(history, success))
    ELSE Append(history, success)

\* PathFinder::record_payment_result
RECURSIVE record_payment_result(_, _, _)
record_payment_result(self, path, success) ==
    IF path = <<>> THEN self
    ELSE LET c == Head(path)
             history == IF c \in DOMAIN self.reliability_history
                        THEN self.reliability_history[c] ELSE <<>>
         IN  record_payment_result(
                 [self EXCEPT !.reliability_history =
                     MapInsert(@, c, push_result(history, success))],
                 Tail(path), success)

\* PathFinder::get_channel_reliability
get_channel_reliability(self, channel_id) ==
    IF channel_id \in DOMAIN self.reliability_history
          /\ self.reliability_history[channel_id] # <<>>
    THEN LET history == self.reliability_history[channel_id] IN
         [num |-> Cardinality({i \in 1..Len(history) : history[i]}),
          den |-> Len(history)]
    ELSE PerfectReliability

\* One turn of the retain of prune_unreliable_channels, as its text reads:
\* a channel whose reliability is under the threshold leaves the channel
\* map and the channel sets of its two nodes
prune_channel(self, threshold, channel_id) ==
    LET reliability == get_channel_reliability(self, channel_id)
        channel_info == self.channels[channel_id]
    IN  IF reliability.num * threshold.den >= threshold.num * reliability.den
        THEN self
        ELSE [self EXCEPT
                !.channels = MapRemove(@, channel_id),
                !.nodes = [a \in DOMAIN self.nodes |->
                              IF a \in {channel_info.source, channel_info.target}
                              THEN self.nodes[a] \ {channel_id}
                              ELSE self.nodes[a]]]

\* ---- The PathFinder's calls on a small network: nodes S, M, T and four
\* channels, two between S and M, one between M and T, one between S and T;
\* route hints can add the channels 5 and 6 between S and T
PathChannels == {1, 2, 3, 4}
Endpoints(c) ==
    CASE c \in {1, 2} -> <<"S", "M">>
      [] c = 3 -> <<"M", "T">>
      [] c \in {4, 5, 6} -> <<"S", "T">>
PathAmounts == {FeeDivisor, 2 * FeeDivisor}
Capacities == {FeeDivisor, MaxCapacity}

HintFor(c, fee_rate, timelock_delta) ==
    [channel_id |-> c, source |-> Endpoints(c)[1], target |-> Endpoints(c)[2],
     fee_rate |-> fee_rate, timelock_delta |-> timelock_delta]

\* The PathFinder after route hints for the four channels, update_channel
\* calls on channels 3 and 4 and payment results for channel 2
NetworkOf(fee2, fee4, cap3, cap4, timelock_delta, history) ==
    LET hinted == apply_route_hints(PathFinder_new,
                      <<HintFor(1, 0, timelock_delta),
                        HintFor(2, fee2, timelock_delta),
                        HintFor(3, 0, timelock_delta),
                        HintFor(4, fee4, timelock_delta)>>)
        updated == update_channel(update_channel(hinted, 3, cap3, 0),
                                  4, cap4, fee4)
    IN  [updated EXCEPT !.reliability_history =
            IF history = <<>> THEN @ ELSE MapInsert(@, 2, history)]

Networks ==
    {NetworkOf(1, 2, MaxCapacity, MaxCapacity, 0, <<>>),
     NetworkOf(1, 2, MaxCapacity, FeeDivisor, 0, <<>>),
     NetworkOf(0, 0, MaxCapacity, MaxCapacity, 0, <<TRUE, FALSE>>),
     NetworkOf(1, 2, FeeDivisor, FeeDivisor, 0, <<>>),
     NetworkOf(1, 2, MaxCapacity, MaxCapacity, 1, <<>>)}

\* ---- The RoutingManager.  Its PathFinder is pf; rm holds the channel map
\* the manager was built with, its policy and active_routes
HopFee == 1000          \* calculate_hop_fee
HopTimelock == 144      \* calculate_hop_timelock

\* RoutingManager::new
RoutingManager_new(channels, routing_policy) ==
    [channels |-> channels, active_routes |-> EmptyMap,
     routing_policy |-> routing_policy]

\* paths.first().cloned().ok_or_else(..)
select_best_path(paths) ==
    IF paths = <<>> THEN [err |-> "NoRoute"]
    ELSE [err |-> "Ok", value |-> Head(paths)]

\* The loop of build_route over the channels of the path still to come
RECURSIVE build_route_loop(_, _, _, _, _, _)
build_route_loop(channel_map, rest, amount, channels, total_fees, total_timelock) ==
    IF rest = <<>>
    THEN [err |-> "Ok", channels |-> channels, total_fees |-> total_fees,
          total_timelock |-> total_timelock]
    ELSE IF Head(rest) \notin DOMAIN channel_map
    THEN [err |-> "InvalidRoute"]
    ELSE LET channel == channel_map[Head(rest)]
             hop == [channel_id |-> Head(rest),
                     source |-> channel.participants[1],
                     target |-> channel.participants[2],
                     amount |-> amount, fee |-> HopFee,
                     timelock |-> HopTimelock]
         IN  build_route_loop(channel_map, Tail(rest), amount,
                              Append(channels, hop), total_fees + hop.fee,
                              total_timelock + hop.timelock)

\* RoutingManager::build_route
build_route(self, path, amount) ==
    LET built == build_route_loop(self.channels, path, amount, <<>>, 0, 0) IN
    IF built.err # "Ok" THEN [err |-> built.err]
    ELSE [err |-> "Ok",
          value |-> [path |-> path, channels |-> built.channels,
                     total_amount |-> amount + built.total_fees,
                     total_fees |-> built.total_fees,
                     total_timelock |-> built.total_timelock]]

\* A validation that turns no route down
validate_route_accepting(self, route) == "Ok"

\* RoutingManager::validate_route up to its lock: the hop count and the
\* timelock against the policy; the error, or "Ok"
validate_route_limits(self, route) ==
    IF Len(route.channels) > self.routing_policy.max_hops THEN "InvalidRoute"
    ELSE IF route.total_timelock > self.routing_policy.max_timelock
    THEN "InvalidRoute"
    ELSE "Ok"

\* RoutingManager::validate_route under its lock: the capacities of the
\* hops' channels; the error, or "Ok"
validate_route_capacities(self, route) ==
    LET bad == {i \in 1..Len(route.channels) :
                   \/ route.channels[i].channel_id \notin DOMAIN self.channels
                   \/ self.channels[route.channels[i].channel_id].capacity
                         < route.channels[i].amount}
        first == CHOOSE i \in bad : \A j \in bad : i <= j
    IN  IF bad = {} THEN "Ok"
        ELSE IF route.channels[first].channel_id \notin DOMAIN self.channels
        THEN "InvalidRoute"
        ELSE "InsufficientCapacity"

\* generate_route_id returns H256::random(): an id no stored route has
generate_route_id(self) == Cardinality(DOMAIN self.active_routes) + 1

\* The channels of the manager: as Endpoints, channels 3 and 4 of either
\* capacity
ManagerChannels ==
    {[c \in PathChannels |->
        [participants |-> Endpoints(c),
         capacity |-> IF c = 3 THEN cap3 ELSE IF c = 4 THEN cap4
                      ELSE MaxCapacity]] :
        cap3 \in Capacities, cap4 \in Capacities}

RoutingPolicies ==
    {policy \in [max_hops : 1..MaxPolicyHops,
                 max_timelock : {HopTimelock, 2 * HopTimelock}] :
        policy.max_hops = 1 => policy.max_timelock = HopTimelock}

RouteHints ==
    {<<>>, <<HintFor(4, 1, 0)>>, <<HintFor(5, 0, 0)>>,
     <<HintFor(1, 0, 0), HintFor(3, 0, 0)>>}

\* ---- The RwLocks of the PathFinder and of the RoutingManager, and the
\* tasks that call.  A task's lock request waits in the lock's queue until
\* it is granted; between two grants other tasks run.
FLocks ==
    {"nodes", "channels", "reliability_history", "manager_channels",
     "active_routes"}
FTasks == {"f1", "f2"}
FTaskIdle == [at |-> "idle"]
Busy(t) == pftask[t].at # "idle"
Request(lock, mode) == [lock |-> lock, mode |-> mode]
NoSearch ==
    [current |-> NoPathState, queue |-> {}, visited |-> {}, paths |-> <<>>]

\* A task inside a call: where it is, the call, the request it waits on,
\* the locals of find_paths's loop and the path or route of find_route
FTask(at, call, wait, search, route) ==
    [at |-> at, call |-> call, wait |-> wait, search |-> search,
     route |-> route]

\* The task at this place of its call is granted the lock it waits on:
\* its request is at the head of the queue, no writer holds the lock and,
\* for a write, no reader does
Obtains(t, at) ==
    /\ pftask[t].at = at
    /\ LET l == pflk[pftask[t].wait.lock] IN
        /\ l.queue # <<>> /\ Head(l.queue) = t
        /\ l.writer = "none"
        /\ pftask[t].wait.mode = "write" => l.readers = {}

\* The locks once the task has what it waited on
Obtained(t) ==
    LET req == pftask[t].wait IN
    [pflk EXCEPT
        ![req.lock] = [writer |-> IF req.mode = "write" THEN t ELSE @.writer,
                       readers |-> IF req.mode = "read"
                                   THEN @.readers \cup {t} ELSE @.readers,
                       queue |-> Tail(@.queue)]]

\* The locks once the task has dropped its guards on some of them
Dropped(locks, t, dropped) ==
    [l \in DOMAIN locks |->
        IF l \in dropped
        THEN [writer |-> IF locks[l].writer = t THEN "none"
                         ELSE locks[l].writer,
              readers |-> locks[l].readers \ {t},
              queue |-> locks[l].queue]
        ELSE locks[l]]

FFrame == UNCHANGED <<smVars, hVars, cVars, pVars, gVars>>

\* A task begins a call
CallStep(t) ==
    /\ FFrame
    /\ ~Busy(t)
    /\ pfsteps < MaxPathOps
    /\ pfsteps' = pfsteps + 1

\* find_route returns: its guards go, the manager's channels guard with them
RouteReturns(t, call, locks, err, value) ==
    /\ pftask' = [pftask EXCEPT ![t] = FTaskIdle]
    /\ pflk' = Dropped(locks, t, FLocks)
    /\ pflast' = [kind |-> "find_route", source |-> call.source,
                  target |-> call.target, amount |-> call.amount,
                  err |-> err, value |-> value]

\* find_paths's loop has ended.  find_paths returns; in find_route the first
\* path is selected and build_route asks for the manager's channels
PathsFound(t, call, locks, found) ==
    IF call.kind = "find_paths"
    THEN /\ pftask' = [pftask EXCEPT ![t] = FTaskIdle]
         /\ pflk' = locks
         /\ pflast' = [kind |-> "find_paths", source |-> call.source,
                       target |-> call.target, amount |-> call.amount,
                       max_hops |-> call.max_hops, err |-> found.err,
                       value |-> found.value]
    ELSE LET best == select_best_path(found.value) IN
         IF found.err # "Ok"
         THEN RouteReturns(t, call, locks, found.err, <<>>)
         ELSE IF best.err # "Ok"
         THEN RouteReturns(t, call, locks, best.err, <<>>)
         ELSE /\ pftask' = [pftask EXCEPT ![t] =
                    FTask("build_route", call,
                          Request("manager_channels", "read"), NoSearch,
                          best.value)]
              /\ pflk' = Enqueue(locks, "manager_channels", t)
              /\ pflast' = pflast

\* find_paths's loop runs on from a queue until it has a PathState to
\* expand, for which it asks for the nodes, or until it ends
SearchOn(t, call, locks, queue, visited, paths) ==
    \E o \in pop_until_expansion(call.target, queue, visited, paths) :
        IF o.done
        THEN PathsFound(t, call, locks, find_paths_result(o.paths))
        ELSE /\ pftask' = [pftask EXCEPT ![t] =
                    FTask("search_nodes", call, Request("nodes", "read"),
                          [current |-> o.current, queue |-> o.queue,
                           visited |-> o.visited, paths |-> o.paths], <<>>)]
             /\ pflk' = Enqueue(locks, "nodes", t)
             /\ pflast' = pflast

\* find_paths begins: with hints it asks for the channels to apply them,
\* without it starts the loop from the source
BeginFindPaths(t, call, locks) ==
    IF call.hints # <<>>
    THEN /\ pftask' = [pftask EXCEPT ![t] =
                FTask("hints_channels", call, Request("channels", "write"),
                      NoSearch, <<>>)]
         /\ pflk' = Enqueue(locks, "channels", t)
         /\ pflast' = pflast
    ELSE SearchOn(t, call, locks,
                  {[node |-> call.source, cost |-> 0,
                    capacity |-> call.amount, path |-> <<>>]}, {}, <<>>)

PathHints == <<HintFor(5, 0, 0), HintFor(6, 1, 0)>>

\* The find_paths calls of task f1, and the one of the other tasks
FindPathsCalls(t) ==
    IF t = "f1"
    THEN {[kind |-> "find_paths", source |-> "S", target |-> "T",
           amount |-> amount, max_hops |-> max_hops, hints |-> hints] :
            amount \in PathAmounts, max_hops \in 1..MaxPolicyHops,
            hints \in {<<>>, PathHints}}
           \cup {[kind |-> "find_paths", source |-> "S", target |-> "S",
                   amount |-> FeeDivisor, max_hops |-> 1, hints |-> <<>>]}
    ELSE {[kind |-> "find_paths", source |-> "S", target |-> "T",
           amount |-> 2 * FeeDivisor, max_hops |-> 1, hints |-> PathHints]}

PathInit ==
    /\ GIdle
    /\ pf \in Networks
    /\ rm = [status |-> "None"]
    /\ pflast = NoOp
    /\ pfsteps = 0
    /\ pflk = [l \in FLocks |-> FreeLock]
    /\ pftask = [t \in FTasks |-> FTaskIdle]
    /\ SMIdle
    /\ HIdle
    /\ CIdle
    /\ PIdle

\* find_paths is called
FindPathsCall(t) ==
    /\ CallStep(t)
    /\ UNCHANGED <<pf, rm>>
    /\ \E call \in FindPathsCalls(t) : BeginFindPaths(t, call, pflk)

\* apply_route_hints has the channels and asks for the nodes
ApplyHintsChannels(t) ==
    /\ FFrame
    /\ Obtains(t, "hints_channels")
    /\ pftask' = [pftask EXCEPT ![t].at = "hints_nodes",
                                ![t].wait = Request("nodes", "write")]
    /\ pflk' = Enqueue(Obtained(t), "nodes", t)
    /\ UNCHANGED <<pf, rm, pflast, pfsteps>>

\* apply_route_hints has the nodes too: the hints are applied, both guards
\* go and the loop starts from the source
ApplyHintsNodes(t) ==
    /\ FFrame
    /\ Obtains(t, "hints_nodes")
    /\ pf' = apply_route_hints(pf, pftask[t].call.hints)
    /\ SearchOn(t, pftask[t].call,
                Dropped(Obtained(t), t, {"channels", "nodes"}),
                {[node |-> pftask[t].call.source, cost |-> 0,
                  capacity |-> pftask[t].call.amount, path |-> <<>>]},
                {}, <<>>)
    /\ UNCHANGED <<rm, pfsteps>>

\* A turn of the loop has the nodes and asks for the channels
SearchNodes(t) ==
    /\ FFrame
    /\ Obtains(t, "search_nodes")
    /\ pftask' = [pftask EXCEPT ![t].at = "search_channels",
                                ![t].wait = Request("channels", "read")]
    /\ pflk' = Enqueue(Obtained(t), "channels", t)
    /\ UNCHANGED <<pf, rm, pflast, pfsteps>>

\* A turn of the loop has the channels too: it pushes the PathStates of the
\* node it expands, both guards go and the loop runs on
SearchChannels(t) ==
    /\ FFrame
    /\ Obtains(t, "search_channels")
    /\ LET s == pftask[t].search IN
        SearchOn(t, pftask[t].call,
                 Dropped(Obtained(t), t, {"nodes", "channels"}),
                 s.queue \cup Expansions(pf, s.current, s.visited,
                                         pftask[t].call.max_hops),
                 s.visited, s.paths)
    /\ UNCHANGED <<pf, rm, pfsteps>>

UpdateChannelCalls ==
    {[kind |-> "update_channel", channel_id |-> c, capacity |-> FeeDivisor,
      fee_rate |-> 1] : c \in {3, 5}}

\* update_channel is called and asks for the channels
UpdateChannelCall(t) ==
    /\ CallStep(t)
    /\ \E call \in UpdateChannelCalls :
        pftask' = [pftask EXCEPT ![t] =
            FTask("update_channel", call, Request("channels", "write"),
                  NoSearch, <<>>)]
    /\ pflk' = Enqueue(pflk, "channels", t)
    /\ UNCHANGED <<pf, rm, pflast>>

\* update_channel has the channels: the channel, if known, gets its
\* capacity and fee rate; the call, or the update_channel_info that made
\* it, returns
UpdateChannel(t) ==
    /\ FFrame
    /\ Obtains(t, "update_channel")
    /\ LET call == pftask[t].call IN
        /\ pf' = update_channel(pf, call.channel_id, call.capacity,
                                call.fee_rate)
        /\ pflast' = [kind |-> call.kind, channel_id |-> call.channel_id,
                      err |-> "Ok"]
    /\ pftask' = [pftask EXCEPT ![t] = FTaskIdle]
    /\ pflk' = Dropped(Obtained(t), t, FLocks)
    /\ UNCHANGED <<rm, pfsteps>>

PruneThresholds == {[num |-> 1, den |-> 2], [num |-> 3, den |-> 4]}

\* prune_unreliable_channels is called and asks for the channels
PruneCall(t) ==
    /\ CallStep(t)
    /\ \E threshold \in PruneThresholds :
        pftask' = [pftask EXCEPT ![t] =
            FTask("prune_channels",
                  [kind |-> "prune_unreliable_channels",
                   threshold |-> threshold],
                  Request("channels", "write"), NoSearch, <<>>)]
    /\ pflk' = Enqueue(pflk, "channels", t)
    /\ UNCHANGED <<pf, rm, pflast>>

\* prune_unreliable_channels has the channels and asks for the nodes
PruneChannels(t) ==
    /\ FFrame
    /\ Obtains(t, "prune_channels")
    /\ pftask' = [pftask EXCEPT ![t].at = "prune_nodes",
                                ![t].wait = Request("nodes", "write")]
    /\ pflk' = Enqueue(Obtained(t), "nodes", t)
    /\ UNCHANGED <<pf, rm, pflast, pfsteps>>

\* prune_unreliable_channels returns and its guards go
PruneReturns(t, locks) ==
    /\ pflast' = [kind |-> "prune_unreliable_channels",
                  threshold |-> pftask[t].call.threshold, err |-> "Ok"]
    /\ pftask' = [pftask EXCEPT ![t] = FTaskIdle]
    /\ pflk' = Dropped(locks, t, FLocks)

\* prune_unreliable_channels has the nodes too: retain starts on the
\* channels, in the hash map's order, and get_channel_reliability asks for
\* the history to judge the first one
PruneNodes(t) ==
    /\ FFrame
    /\ Obtains(t, "prune_nodes")
    /\ IF DOMAIN pf.channels = {}
       THEN PruneReturns(t, Obtained(t))
       ELSE /\ \E c \in DOMAIN pf.channels :
                 pftask' = [pftask EXCEPT ![t] =
                     [at |-> "prune_history", call |-> pftask[t].call,
                      wait |-> Request("reliability_history", "read"),
                      search |-> NoSearch, route |-> <<>>,
                      channel_id |-> c, kept |-> {}]]
            /\ pflk' = Enqueue(Obtained(t), "reliability_history", t)
            /\ pflast' = pflast
    /\ UNCHANGED <<pf, rm, pfsteps>>

\* get_channel_reliability has the history for one channel: the channel is
\* judged, the history's guard goes, and retain goes on to the next channel
\* or prune_unreliable_channels returns
PruneHistory(t) ==
    /\ FFrame
    /\ Obtains(t, "prune_history")
    /\ pf' = prune_channel(pf, pftask[t].call.threshold, pftask[t].channel_id)
    /\ LET locks == Dropped(Obtained(t), t, {"reliability_history"})
           rest == DOMAIN pf'.channels
                      \ (pftask[t].kept \cup {pftask[t].channel_id})
       IN  IF rest = {}
           THEN PruneReturns(t, locks)
           ELSE /\ \E c \in rest :
                     pftask' = [pftask EXCEPT
                         ![t].channel_id = c,
                         ![t].kept = @ \cup ({pftask[t].channel_id}
                                                \cap DOMAIN pf'.channels)]
                /\ pflk' = Enqueue(locks, "reliability_history", t)
                /\ pflast' = pflast
    /\ UNCHANGED <<rm, pfsteps>>

RecordCalls ==
    {[kind |-> "record_payment_result", path |-> path, success |-> success] :
        path \in {<<2, 3>>}, success \in BOOLEAN}

\* record_payment_result is called and asks to write the history
RecordCall(t) ==
    /\ CallStep(t)
    /\ \E call \in RecordCalls :
        pftask' = [pftask EXCEPT ![t] =
            FTask("record_payment_result", call,
                  Request("reliability_history", "write"), NoSearch, <<>>)]
    /\ pflk' = Enqueue(pflk, "reliability_history", t)
    /\ UNCHANGED <<pf, rm, pflast>>

\* record_payment_result has the history: the outcome is pushed for every
\* channel of the path and the call returns
RecordPaymentResult(t) ==
    /\ FFrame
    /\ Obtains(t, "record_payment_result")
    /\ LET call == pftask[t].call IN
        /\ pf' = record_payment_result(pf, call.path, call.success)
        /\ pflast' = [kind |-> "record_payment_result", path |-> call.path,
                      success |-> call.success, err |-> "Ok"]
    /\ pftask' = [pftask EXCEPT ![t] = FTaskIdle]
    /\ pflk' = Dropped(Obtained(t), t, FLocks)
    /\ UNCHANGED <<rm, pfsteps>>

PathNext ==
    \/ \E t \in FTasks : FindPathsCall(t)
    \/ \E t \in FTasks : ApplyHintsChannels(t)
    \/ \E t \in FTasks : ApplyHintsNodes(t)
    \/ \E t \in FTasks : SearchNodes(t)
    \/ \E t \in FTasks : SearchChannels(t)
    \/ \E t \in FTasks \ {"f1"} : UpdateChannelCall(t)
    \/ \E t \in FTasks : UpdateChannel(t)
    \/ \E t \in FTasks \ {"f1"} : PruneCall(t)
    \/ \E t \in FTasks : PruneChannels(t)
    \/ \E t \in FTasks : PruneNodes(t)
    \/ \E t \in FTasks : PruneHistory(t)
    \/ \E t \in {"f1"} : RecordCall(t)
    \/ \E t \in FTasks : RecordPaymentResult(t)

SpecPath == PathInit /\ [][PathNext]_vars

\* ---- The reliability history near its limit: channel 2 starts with no
\* history or with one that earlier record_payment_result calls have filled
\* to just under or exactly HistoryLimit outcomes
OutcomesSoFar(n) == [i \in 1..n |-> i % 2 = 0]

ReliabilityInit ==
    /\ GIdle
    /\ pf \in {[PathFinder_new EXCEPT !.reliability_history =
                    IF n = 0 THEN @ ELSE MapInsert(@, 2, OutcomesSoFar(n))] :
                n \in {0, 1, HistoryLimit - 1, HistoryLimit}}
    /\ rm = [status |-> "None"]
    /\ pflast = NoOp
    /\ pfsteps = 0
    /\ pflk = [l \in FLocks |-> FreeLock]
    /\ pftask = [t \in FTasks |-> FTaskIdle]
    /\ SMIdle
    /\ HIdle
    /\ CIdle
    /\ PIdle

\* get_channel_reliability is called and asks to read the history
GetChannelReliabilityCall(t) ==
    /\ CallStep(t)
    /\ \E c \in {2, 3, 4} :
        pftask' = [pftask EXCEPT ![t] =
            FTask("get_channel_reliability",
                  [kind |-> "get_channel_reliability", channel_id |-> c],
                  Request("reliability_history", "read"), NoSearch, <<>>)]
    /\ pflk' = Enqueue(pflk, "reliability_history", t)
    /\ UNCHANGED <<pf, rm, pflast>>

\* get_channel_reliability has the history and returns the ratio
GetChannelReliability(t) ==
    /\ FFrame
    /\ Obtains(t, "get_channel_reliability")
    /\ pflast' = [kind |-> "get_channel_reliability",
                  channel_id |-> pftask[t].call.channel_id, err |-> "Ok",
                  value |-> get_channel_reliability(
                                pf, pftask[t].call.channel_id)]
    /\ pftask' = [pftask EXCEPT ![t] = FTaskIdle]
    /\ pflk' = Dropped(Obtained(t), t, FLocks)
    /\ UNCHANGED <<pf, rm, pfsteps>>

ReliabilityNext ==
    \/ \E t \in FTasks : RecordCall(t)
    \/ \E t \in FTasks : RecordPaymentResult(t)
    \/ \E t \in FTasks : GetChannelReliabilityCall(t)
    \/ \E t \in FTasks : GetChannelReliability(t)

SpecReliability == ReliabilityInit /\ [][ReliabilityNext]_vars

\* ---- RoutingManager::find_route and update_channel_info, step by step
\* The find_route calls of task f1, and the one of the other tasks;
\* find_route hands find_paths the manager's policy
FindRouteCalls(t, policy) ==
    IF t = "f1"
    THEN {[kind |-> "find_route", source |-> "S", target |-> "T",
           amount |-> amount, max_hops |-> policy.max_hops, hints |-> hints] :
            amount \in PathAmounts, hints \in RouteHints}
           \cup {[kind |-> "find_route", source |-> "T", target |-> "S",
                   amount |-> FeeDivisor, max_hops |-> policy.max_hops,
                   hints |-> hints] :
                    hints \in {<<HintFor(4, 1, 0)>>,
                               <<HintFor(1, 0, 0), HintFor(3, 0, 0)>>}}
           \cup {[kind |-> "find_route", source |-> "S", target |-> "S",
                   amount |-> FeeDivisor, max_hops |-> policy.max_hops,
                   hints |-> <<>>]}
    ELSE {[kind |-> "find_route", source |-> "S", target |-> "T",
           amount |-> FeeDivisor, max_hops |-> policy.max_hops,
           hints |-> <<HintFor(4, 1, 0)>>]}

RouteInit ==
    /\ GIdle
    /\ pf = PathFinder_new
    /\ rm \in {RoutingManager_new(channels, policy) :
                  channels \in ManagerChannels, policy \in RoutingPolicies}
    /\ pflast = NoOp
    /\ pfsteps = 0
    /\ pflk = [l \in FLocks |-> FreeLock]
    /\ pftask = [t \in FTasks |-> FTaskIdle]
    /\ SMIdle
    /\ HIdle
    /\ CIdle
    /\ PIdle

\* find_route is called and asks for the manager's channels
FindRouteCall(t) ==
    /\ CallStep(t)
    /\ \E call \in FindRouteCalls(t, rm.routing_policy) :
        pftask' = [pftask EXCEPT ![t] =
            FTask("route_channels", call,
                  Request("manager_channels", "read"), NoSearch, <<>>)]
    /\ pflk' = Enqueue(pflk, "manager_channels", t)
    /\ UNCHANGED <<pf, rm, pflast>>

\* find_route has the manager's channels, which it keeps until it returns,
\* and calls find_paths
FindRouteChannels(t) ==
    /\ FFrame
    /\ Obtains(t, "route_channels")
    /\ BeginFindPaths(t, pftask[t].call, Obtained(t))
    /\ UNCHANGED <<pf, rm, pfsteps>>

\* build_route has the manager's channels a second time: the route is
\* built, the second guard goes, and validate_route checks the hop count
\* and the timelock before it asks for the manager's channels in its turn
BuildRoute(t) ==
    /\ FFrame
    /\ Obtains(t, "build_route")
    /\ LET call == pftask[t].call
           built == build_route(rm, pftask[t].route, call.amount)
           limits == validate_route_limits(rm, built.value)
       IN  IF built.err # "Ok"
           THEN RouteReturns(t, call, Obtained(t), built.err, <<>>)
           ELSE IF limits # "Ok"
           THEN RouteReturns(t, call, Obtained(t), limits, <<>>)
           ELSE /\ pftask' = [pftask EXCEPT ![t] =
                      FTask("validate_route", call,
                            Request("manager_channels", "read"), NoSearch,
                            built.value)]
                /\ pflk' = Enqueue(Obtained(t), "manager_channels", t)
                /\ pflast' = pflast
    /\ UNCHANGED <<pf, rm, pfsteps>>

\* validate_route has the manager's channels: the capacities are checked,
\* the guard goes, and find_route asks for active_routes
ValidateRoute(t) ==
    /\ FFrame
    /\ Obtains(t, "validate_route")
    /\ LET call == pftask[t].call
           valid == validate_route_capacities(rm, pftask[t].route)
       IN  IF valid # "Ok"
           THEN RouteReturns(t, call, Obtained(t), valid, <<>>)
           ELSE /\ pftask' = [pftask EXCEPT ![t].at = "store_route",
                                  ![t].wait = Request("active_routes", "write")]
                /\ pflk' = Enqueue(Obtained(t), "active_routes", t)
                /\ pflast' = pflast
    /\ UNCHANGED <<pf, rm, pfsteps>>

\* find_route has active_routes: the route is stored under a new id and
\* returned
StoreRoute(t) ==
    /\ FFrame
    /\ Obtains(t, "store_route")
    /\ rm' = [rm EXCEPT !.active_routes =
                 MapInsert(@, generate_route_id(rm), pftask[t].route)]
    /\ RouteReturns(t, pftask[t].call, Obtained(t), "Ok", pftask[t].route)
    /\ UNCHANGED <<pf, pfsteps>>

UpdateChannelInfoCalls ==
    {[kind |-> "update_channel_info", channel_id |-> c,
      capacity |-> FeeDivisor, fee_rate |-> 1] : c \in {3, 5}}

\* update_channel_info is called and asks to write the manager's channels
UpdateChannelInfoCall(t) ==
    /\ CallStep(t)
    /\ \E call \in UpdateChannelInfoCalls :
        pftask' = [pftask EXCEPT ![t] =
            FTask("info_channels", call,
                  Request("manager_channels", "write"), NoSearch, <<>>)]
    /\ pflk' = Enqueue(pflk, "manager_channels", t)
    /\ UNCHANGED <<pf, rm, pflast>>

\* update_channel_info has the manager's channels: a channel it knows gets
\* its capacity (Channel::update_capacity, whose text the sources do not
\* hold, is read as the assignment its name says) and the PathFinder's
\* update_channel is called under the guard; for another channel the call
\* returns
UpdateChannelInfo(t) ==
    /\ FFrame
    /\ Obtains(t, "info_channels")
    /\ LET call == pftask[t].call IN
        IF call.channel_id \in DOMAIN rm.channels
        THEN /\ rm' = [rm EXCEPT !.channels[call.channel_id].capacity =
                          call.capacity]
             /\ pftask' = [pftask EXCEPT ![t].at = "update_channel",
                                ![t].wait = Request("channels", "write")]
             /\ pflk' = Enqueue(Obtained(t), "channels", t)
             /\ pflast' = pflast
        ELSE /\ rm' = rm
             /\ pftask' = [pftask EXCEPT ![t] = FTaskIdle]
             /\ pflk' = Dropped(Obtained(t), t, FLocks)
             /\ pflast' = [kind |-> "update_channel_info",
                           channel_id |-> call.channel_id, err |-> "Ok"]
    /\ UNCHANGED <<pf, pfsteps>>

RouteNext ==
    \/ \E t \in FTasks : FindRouteCall(t)
    \/ \E t \in FTasks : FindRouteChannels(t)
    \/ \E t \in FTasks : ApplyHintsChannels(t)
    \/ \E t \in FTasks : ApplyHintsNodes(t)
    \/ \E t \in FTasks : SearchNodes(t)
    \/ \E t \in FTasks : SearchChannels(t)
    \/ \E t \in FTasks : BuildRoute(t)
    \/ \E t \in FTasks : ValidateRoute(t)
    \/ \E t \in FTasks : StoreRoute(t)
    \/ \E t \in FTasks \ {"f1"} : UpdateChannelInfoCall(t)
    \/ \E t \in FTasks : UpdateChannelInfo(t)
    \/ \E t \in FTasks : UpdateChannel(t)

SpecRoute == RouteInit /\ [][RouteNext]_vars

(***************************************************************************)
(* Part VI.  The bridge's StateSync                                        *)
(***************************************************************************)
GFrame == UNCHANGED <<smVars, hVars, cVars, pVars, fVars>>

\* StateSync::new
StateSync_new ==
    [channel_states |-> EmptyMap, pending_updates |-> <<>>, last_sync_block |-> 0]

\* StateSync::is_valid_transition
StateSync_is_valid_transition(current, update) == TRUE

\* StateSync::validate_state_update: TRUE when it returns Ok
validate_state_update(self, update) ==
    IF update.channel_id \in DOMAIN self.channel_states
    THEN LET current_state == self.channel_states[update.channel_id] IN
         IF update.sequence <= current_state.sequence THEN FALSE
         ELSE StateSync_is_valid_transition(current_state, update)
    ELSE TRUE

\* StateSync::add_state_update
add_state_update(self, update) ==
    IF ~validate_state_update(self, update)
    THEN [err |-> "Err", self |-> self]
    ELSE [err |-> "Ok",
          self |-> [self EXCEPT !.pending_updates = Append(@, update)]]

\* StateSync::apply_state_update
apply_state_update(self, update) ==
    [self EXCEPT !.channel_states =
        MapInsert(@, update.channel_id, update.new_state)]

\* The loop of apply_pending_updates over the drained updates; written is
\* the list of the writes made so far, each with the sequence it replaced
RECURSIVE apply_updates_loop(_, _, _)
apply_updates_loop(self, updates, written) ==
    IF updates = <<>> THEN [self |-> self, written |-> written]
    ELSE LET update == Head(updates)
             c == update.channel_id
             applied == apply_state_update(self, update)
         IN  apply_updates_loop(applied, Tail(updates),
                 Append(written,
                     [channel_id |-> c,
                      replaced |-> c \in DOMAIN self.channel_states,
                      old |-> IF c \in DOMAIN self.channel_states
                              THEN self.channel_states[c].sequence ELSE 0,
                      new |-> applied.channel_states[c].sequence]))

\* StateSync::apply_pending_updates
apply_pending_updates(self) ==
    LET r == apply_updates_loop([self EXCEPT !.pending_updates = <<>>],
                                self.pending_updates, <<>>)
    IN  [err |-> "Ok", self |-> r.self, written |-> r.written]

SyncChannels == {1, 2}
SyncUpdates ==
    [channel_id : SyncChannels, sequence : 1..MaxSyncSeq,
     new_state : [sequence : 0..MaxSyncSeq]]

SyncInit ==
    /\ ss = StateSync_new
    /\ bm = [status |-> "None"]
    /\ cm = [status |-> "None"]
    /\ pm = [status |-> "None"]
    /\ mon = [status |-> "None"]
    /\ glast = NoOp
    /\ gsteps = 0
    /\ SMIdle
    /\ HIdle
    /\ CIdle
    /\ PIdle
    /\ FIdle

AddStateUpdate ==
    /\ GFrame
    /\ gsteps < MaxSyncOps
    /\ gsteps' = gsteps + 1
    /\ UNCHANGED <<bm, cm, pm, mon>>
    /\ \E update \in SyncUpdates :
        LET r == add_state_update(ss, update) IN
        /\ ss' = r.self
        /\ glast' = [kind |-> "add_state_update", update |-> update,
                     err |-> r.err]

ApplyPendingUpdates ==
    /\ GFrame
    /\ gsteps < MaxSyncOps
    /\ gsteps' = gsteps + 1
    /\ UNCHANGED <<bm, cm, pm, mon>>
    /\ LET r == apply_pending_updates(ss) IN
        /\ ss' = r.self
        /\ glast' = [kind |-> "apply_pending_updates", written |-> r.written,
                     err |-> r.err]

SyncNext == AddStateUpdate \/ ApplyPendingUpdates

SpecSync == SyncInit /\ [][SyncNext]_vars

(***************************************************************************)
(* The BridgeManager's pending_transactions.  bm also holds what is        *)
(* outside the program: the chain's receipts, which the node reports and   *)
(* a reorganisation can change, and the clock chrono::Utc::now() reads.    *)
(***************************************************************************)
PollInterval == 15                       \* seconds the monitor sleeps
RetentionSeconds == 24 * 60 * 60
TransactionTypes ==
    {"ChannelRegistration", "StateUpdate", "DisputeInitiation",
     "DisputeResolution"}
ReceiptStatuses == {0, 1}

\* The monitor between two passes
MonitorIdle == [at |-> "idle"]

\* BridgeManager::new, with an empty chain and the clock at 0.  sending
\* holds the calls whose transaction is sent and whose entry is not yet
\* inserted.  monitor is the position of the task start_monitoring
\* spawns: in a pass it holds pending_transactions.write() and todo, the
\* entries the loop has yet to visit; began, the hashes that were Pending
\* when the lock was taken, is kept to state what a pass does.  queue
\* holds, in order, the requests for the table's lock that wait.
BridgeManager_new ==
    [pending_transactions |-> EmptyMap, chain |-> EmptyMap, now |-> 0,
     submitted |-> 0, sending |-> EmptyMap, monitor |-> MonitorIdle,
     queue |-> <<>>]

\* The insert register_channel, update_channel_state, initiate_dispute and
\* resolve_dispute make after submit_transaction returned tx_hash
insert_pending(pending, tx_hash, tx_type, timestamp) ==
    MapInsert(pending, tx_hash,
              [tx_type |-> tx_type, status |-> "Pending",
               timestamp |-> timestamp])

\* BridgeManager::get_pending_transaction
get_pending_transaction(pending, tx_hash) ==
    IF tx_hash \in DOMAIN pending
    THEN [some |-> TRUE, value |-> pending[tx_hash]]
    ELSE [some |-> FALSE]

\* The status the monitor gives an entry whose receipt has this status
status_of_receipt(receipt_status) ==
    IF receipt_status = 1 THEN "Confirmed" ELSE "Failed"

\* get_transaction_receipt as the node answers it from the chain
get_transaction_receipt(chain, tx_hash) ==
    IF tx_hash \in DOMAIN chain
    THEN [some |-> TRUE, status |-> chain[tx_hash]]
    ELSE [some |-> FALSE]

\* One turn of the loop of monitor_pending_transactions: an entry with a
\* receipt takes the receipt's status
update_from_receipt(pending, tx_hash, receipt) ==
    IF receipt.some
    THEN [pending EXCEPT ![tx_hash].status = status_of_receipt(receipt.status)]
    ELSE pending

\* pending.retain(..)
retain_recent(pending, current_time) ==
    LET kept == {h \in DOMAIN pending :
                    \/ pending[h].status = "Pending"
                    \/ current_time - pending[h].timestamp < RetentionSeconds}
    IN  [h \in kept |-> pending[h]]

\* pending_transactions is locked for writing while a pass runs
TableFree(b) == b.monitor.at # "pass"

\* A request for the table's lock is granted at once: the lock is free and
\* no request waits
Acquires(b) == TableFree(b) /\ b.queue = <<>>

\* The request is the oldest one waiting and the lock is free
Granted(b, request) ==
    TableFree(b) /\ b.queue # <<>> /\ Head(b.queue) = request

InsertRequest(tx_hash) == [kind |-> "insert", tx_hash |-> tx_hash]
GetRequest(tx_hash) == [kind |-> "get", tx_hash |-> tx_hash]
MonitorRequest == [kind |-> "monitor", tx_hash |-> 0]

Queued(b) == {b.queue[i] : i \in DOMAIN b.queue}

\* The queue once the request has the lock
Served(b, request) ==
    IF b.queue # <<>> /\ Head(b.queue) = request
    THEN Tail(b.queue) ELSE b.queue

BridgeInit ==
    /\ bm = BridgeManager_new
    /\ ss = [status |-> "None"]
    /\ cm = [status |-> "None"]
    /\ pm = [status |-> "None"]
    /\ mon = [status |-> "None"]
    /\ glast = NoOp
    /\ gsteps = 0
    /\ SMIdle
    /\ HIdle
    /\ CIdle
    /\ PIdle
    /\ FIdle

BridgeStep ==
    /\ GFrame
    /\ gsteps < MaxBridgeOps
    /\ gsteps' = gsteps + 1
    /\ UNCHANGED <<ss, cm, pm, mon>>

\* register_channel, update_channel_state, initiate_dispute or
\* resolve_dispute up to the return of submit_transaction: the
\* transaction is sent and the node gives it a hash no earlier one has, or
\* the send fails and the call returns the error
SubmitTransaction ==
    /\ BridgeStep
    /\ bm.submitted < MaxTxs
    /\ \E tx_type \in TransactionTypes, sent \in BOOLEAN :
        IF sent
        THEN LET tx_hash == bm.submitted + 1 IN
             /\ bm' = [bm EXCEPT
                    !.submitted = tx_hash,
                    !.sending = MapInsert(@, tx_hash, tx_type)]
             /\ glast' = [kind |-> "submit", tx_type |-> tx_type,
                          phase |-> "sent", err |-> "Ok",
                          tx_hash |-> tx_hash]
        ELSE /\ bm' = bm
             /\ glast' = [kind |-> "submit", tx_type |-> tx_type,
                          phase |-> "return", err |-> "Err", tx_hash |-> 0]

\* The rest of the call: the write lock is granted, the clock is read and
\* the entry is inserted under the hash, which the call returns
InsertPending ==
    /\ BridgeStep
    /\ \E tx_hash \in DOMAIN bm.sending :
        /\ \/ Acquires(bm) /\ InsertRequest(tx_hash) \notin Queued(bm)
           \/ Granted(bm, InsertRequest(tx_hash))
        /\ bm' = [bm EXCEPT
               !.sending = MapRemove(@, tx_hash),
               !.pending_transactions =
                   insert_pending(@, tx_hash, bm.sending[tx_hash], bm.now),
               !.queue = Served(bm, InsertRequest(tx_hash))]
        /\ glast' = [kind |-> "submit", tx_type |-> bm.sending[tx_hash],
                     phase |-> "return", err |-> "Ok", tx_hash |-> tx_hash]

\* pending_transactions.write().await of the call finds the lock held or
\* other requests waiting, and waits behind them
InsertWait ==
    /\ BridgeStep
    /\ ~Acquires(bm)
    /\ \E tx_hash \in DOMAIN bm.sending :
        /\ InsertRequest(tx_hash) \notin Queued(bm)
        /\ bm' = [bm EXCEPT !.queue = Append(@, InsertRequest(tx_hash))]
        /\ glast' = [kind |-> "submit", tx_type |-> bm.sending[tx_hash],
                     phase |-> "wait", err |-> "Ok", tx_hash |-> tx_hash]

\* The chain includes a submitted transaction in a block
Mine ==
    /\ BridgeStep
    /\ \E h \in (1..bm.submitted) \ DOMAIN bm.chain, s \in ReceiptStatuses :
        /\ bm' = [bm EXCEPT !.chain = MapInsert(@, h, s)]
        /\ glast' = [kind |-> "mine", tx_hash |-> h, err |-> "Ok"]

\* A reorganisation: a transaction that succeeded in the abandoned block
\* fails in the block that now holds it
Reorg ==
    /\ BridgeStep
    /\ \E h \in DOMAIN bm.chain :
        /\ bm.chain[h] = 1
        /\ bm' = [bm EXCEPT !.chain[h] = 0]
        /\ glast' = [kind |-> "reorg", tx_hash |-> h, err |-> "Ok"]

\* Time passes: the monitor's sleep, or the retention period
BridgeTick ==
    /\ BridgeStep
    /\ \E d \in {PollInterval, RetentionSeconds} :
        /\ bm' = [bm EXCEPT !.now = @ + d]
        /\ glast' = [kind |-> "tick", err |-> "Ok"]

\* The monitor's pending_transactions.write().await finds the lock held
\* or other requests waiting, and waits behind them
MonitorWait ==
    /\ BridgeStep
    /\ bm.monitor.at = "idle"
    /\ ~Acquires(bm)
    /\ bm' = [bm EXCEPT !.monitor = [at |-> "waiting"],
                        !.queue = Append(@, MonitorRequest)]
    /\ glast' = [kind |-> "monitor_pending_transactions",
                 phase |-> "wait", err |-> "Ok"]

\* A pass of the monitor started by start_monitoring takes the write
\* lock.  With entries in the table it asks for the receipt of the first
\* and waits; with none the loop has no turn and the pass returns.
MonitorBegin ==
    /\ BridgeStep
    /\ \/ bm.monitor.at = "idle" /\ Acquires(bm)
       \/ bm.monitor.at = "waiting" /\ Granted(bm, MonitorRequest)
    /\ IF DOMAIN bm.pending_transactions = {}
       THEN /\ bm' = [bm EXCEPT !.monitor = MonitorIdle,
                          !.queue = Served(bm, MonitorRequest)]
            /\ glast' = [kind |-> "monitor_pending_transactions",
                         phase |-> "return", err |-> "Ok"]
       ELSE /\ bm' = [bm EXCEPT
                   !.monitor =
                       [at |-> "pass",
                        todo |-> DOMAIN bm.pending_transactions,
                        began |-> {h \in DOMAIN bm.pending_transactions :
                            bm.pending_transactions[h].status = "Pending"}],
                   !.queue = Served(bm, MonitorRequest)]
            /\ glast' = [kind |-> "monitor_pending_transactions",
                         phase |-> "lock", err |-> "Ok"]

\* The node answers get_transaction_receipt for one entry, in the order
\* the HashMap yields them.  A failed request returns the error at once:
\* the entries visited before keep their new status and nothing is
\* removed.  After the last entry the clock is read, the table is pruned
\* and the pass returns; the lock is dropped on either return.
MonitorReceipt ==
    /\ BridgeStep
    /\ bm.monitor.at = "pass"
    /\ \E tx_hash \in bm.monitor.todo, rpc_ok \in BOOLEAN :
        IF ~rpc_ok
        THEN /\ bm' = [bm EXCEPT !.monitor = MonitorIdle]
             /\ glast' = [kind |-> "monitor_pending_transactions",
                          phase |-> "return", err |-> "Err"]
        ELSE LET pending == update_from_receipt(bm.pending_transactions,
                     tx_hash, get_transaction_receipt(bm.chain, tx_hash))
             IN  IF bm.monitor.todo = {tx_hash}
                 THEN /\ bm' = [bm EXCEPT
                             !.pending_transactions =
                                 retain_recent(pending, bm.now),
                             !.monitor = MonitorIdle]
                      /\ glast' = [kind |-> "monitor_pending_transactions",
                                   phase |-> "return", err |-> "Ok"]
                 ELSE /\ bm' = [bm EXCEPT
                             !.pending_transactions = pending,
                             !.monitor.todo = @ \ {tx_hash}]
                      /\ glast' = [kind |-> "monitor_pending_transactions",
                                   phase |-> "receipt", err |-> "Ok"]

\* get_pending_transaction with the read lock granted
GetPendingTransaction ==
    /\ BridgeStep
    /\ bm.submitted >= 1
    /\ \E h \in 1..bm.submitted :
        /\ \/ Acquires(bm) /\ GetRequest(h) \notin Queued(bm)
           \/ Granted(bm, GetRequest(h))
        /\ bm' = [bm EXCEPT !.queue = Served(bm, GetRequest(h))]
        /\ glast' = [kind |-> "get_pending_transaction", tx_hash |-> h,
                     phase |-> "return", err |-> "Ok",
                     some |-> get_pending_transaction(
                                  bm.pending_transactions, h).some]

\* pending_transactions.read().await of get_pending_transaction finds the
\* lock held or other requests waiting, and waits behind them
GetWait ==
    /\ BridgeStep
    /\ bm.submitted >= 1
    /\ ~Acquires(bm)
    /\ \A r \in Queued(bm) : r.kind # "get"
    /\ \E h \in 1..bm.submitted :
        /\ bm' = [bm EXCEPT !.queue = Append(@, GetRequest(h))]
        /\ glast' = [kind |-> "get_pending_transaction", tx_hash |-> h,
                     phase |-> "wait", err |-> "Ok", some |-> FALSE]

BridgeNext ==
    \/ SubmitTransaction
    \/ InsertPending
    \/ InsertWait
    \/ Mine
    \/ Reorg
    \/ BridgeTick
    \/ MonitorWait
    \/ MonitorBegin
    \/ MonitorReceipt
    \/ GetPendingTransaction
    \/ GetWait

SpecBridge == BridgeInit /\ [][BridgeNext]_vars

(***************************************************************************)
(* ChannelManager (lightning/src/channel/mod.rs).  Every channel has the   *)
(* id H256::zero(), the block height is always 0, and signatures and       *)
(* dispute proofs always verify, as the code's placeholders have it.  A    *)
(* call of update_channel_state, close_channel or dispute_channel clones   *)
(* the channel under the read lock, works on the clone with no lock held   *)
(* and inserts it under the write lock: two steps per call.                *)
(***************************************************************************)
ChannelZero == 0                            \* generate_channel_id
CurrentBlockHeight == 0                     \* get_current_block_height
CMStatuses ==
    {"Initializing", "Active", "Locked", "Closing", "Disputed", "Closed"}
CMTasks == {"t1", "t2"}
CMOps == {"update_channel_state", "close_channel", "dispute_channel"}
ChannelConfigs ==
    {[min_capacity |-> 1, max_capacity |-> 1, min_dispute_period |-> 0,
      max_dispute_period |-> 1, max_participants |-> 2]}
ParticipantCounts == {2, 3}
ChannelCapacities == {0, 1}
DisputePeriods == {0, 1, 2}
ChannelStateValues == {1, 2}
CMIdleTask == [pc |-> "idle"]

ChannelManager_new(config) ==
    [channels |-> <<>>, config |-> config,
     tasks |-> [t \in CMTasks |-> CMIdleTask]]

cm_get_channel(channels, channel_id) ==
    IF channel_id \in DOMAIN channels
    THEN [err |-> "Ok", channel |-> channels[channel_id]]
    ELSE [err |-> "NotFound", channel |-> CMIdleTask]

cm_is_channel_expired(channel) == CurrentBlockHeight >= channel.timeout_height

cm_create_channel(self, n_participants, capacity, dispute_period) ==
    IF n_participants > self.config.max_participants
    THEN [err |-> "InvalidStateTransition", channels |-> self.channels]
    ELSE IF capacity < self.config.min_capacity
            \/ capacity > self.config.max_capacity
    THEN [err |-> "InvalidStateTransition", channels |-> self.channels]
    ELSE IF dispute_period < self.config.min_dispute_period
            \/ dispute_period > self.config.max_dispute_period
    THEN [err |-> "InvalidStateTransition", channels |-> self.channels]
    ELSE [err |-> "Ok",
          channels |-> MapInsert(self.channels, ChannelZero,
              [state |-> 0, status |-> "Initializing", nonce |-> 0,
               timeout_height |-> CurrentBlockHeight + dispute_period,
               dispute_period |-> dispute_period])]

\* The part of update_channel_state after get_channel, on the clone
cm_update_channel_state(channels, channel_id, channel, new_state) ==
    IF channel.status = "Locked"
    THEN [err |-> "ChannelLocked", channels |-> channels]
    ELSE IF cm_is_channel_expired(channel)
    THEN [err |-> "ChannelExpired", channels |-> channels]
    ELSE [err |-> "Ok",
          channels |-> MapInsert(channels, channel_id,
              [channel EXCEPT !.state = new_state, !.nonce = @ + 1])]

\* The part of close_channel after get_channel
cm_close_channel(channels, channel_id, channel, final_state) ==
    [err |-> "Ok",
     channels |-> MapInsert(channels, channel_id,
         [channel EXCEPT
             !.status = "Closing", !.state = final_state,
             !.timeout_height = CurrentBlockHeight + channel.dispute_period])]

\* The part of dispute_channel after get_channel
cm_dispute_channel(channels, channel_id, channel, disputed_state) ==
    IF channel.status # "Closing"
    THEN [err |-> "InvalidStateTransition", channels |-> channels]
    ELSE IF CurrentBlockHeight >= channel.timeout_height
    THEN [err |-> "ChannelExpired", channels |-> channels]
    ELSE [err |-> "Ok",
          channels |-> MapInsert(channels, channel_id,
              [channel EXCEPT
                  !.state = disputed_state, !.status = "Disputed"])]

cm_finish(call, channels, channel_id, channel, state) ==
    IF call = "update_channel_state"
    THEN cm_update_channel_state(channels, channel_id, channel, state)
    ELSE IF call = "close_channel"
    THEN cm_close_channel(channels, channel_id, channel, state)
    ELSE cm_dispute_channel(channels, channel_id, channel, state)

ChanMgrInit ==
    /\ cm \in {ChannelManager_new(c) : c \in ChannelConfigs}
    /\ bm = [status |-> "None"]
    /\ ss = [status |-> "None"]
    /\ pm = [status |-> "None"]
    /\ mon = [status |-> "None"]
    /\ glast = NoOp
    /\ gsteps = 0
    /\ SMIdle
    /\ HIdle
    /\ CIdle
    /\ PIdle
    /\ FIdle

ChanMgrStep ==
    /\ GFrame
    /\ gsteps < MaxChanOps
    /\ gsteps' = gsteps + 1
    /\ UNCHANGED <<bm, ss, pm, mon>>

\* create_channel: the checks and the insert under the write lock
CreateChannel(t) ==
    /\ ChanMgrStep
    /\ cm.tasks[t].pc = "idle"
    /\ \E n \in ParticipantCounts, capacity \in ChannelCapacities,
          dispute_period \in DisputePeriods :
        LET r == cm_create_channel(cm, n, capacity, dispute_period) IN
        /\ cm' = [cm EXCEPT !.channels = r.channels]
        /\ glast' = [kind |-> "create_channel", task |-> t, err |-> r.err,
                     phase |-> "return"]

\* The call's get_channel: the clone taken under the read lock
BeginChannelCall(t) ==
    /\ ChanMgrStep
    /\ cm.tasks[t].pc = "idle"
    /\ \E call \in CMOps, state \in ChannelStateValues :
        LET r == cm_get_channel(cm.channels, ChannelZero) IN
        IF r.err = "Ok"
        THEN /\ cm' = [cm EXCEPT !.tasks[t] =
                    [pc |-> "cloned", op |-> call, state |-> state,
                     channel |-> r.channel]]
             /\ glast' = [kind |-> call, task |-> t, err |-> "Ok",
                          phase |-> "get_channel"]
        ELSE /\ cm' = cm
             /\ glast' = [kind |-> call, task |-> t, err |-> r.err,
                          phase |-> "return"]

\* The rest of the call: the checks on the clone, its change and the
\* insert of the clone under the write lock
FinishChannelCall(t) ==
    /\ ChanMgrStep
    /\ cm.tasks[t].pc = "cloned"
    /\ LET task == cm.tasks[t]
           r == cm_finish(task.op, cm.channels, ChannelZero, task.channel,
                          task.state) IN
        /\ cm' = [cm EXCEPT !.channels = r.channels,
                            !.tasks[t] = CMIdleTask]
        /\ glast' = [kind |-> task.op, task |-> t, err |-> r.err,
                     phase |-> "return"]

ChanMgrNext ==
    \/ \E t \in CMTasks : CreateChannel(t)
    \/ \E t \in CMTasks : BeginChannelCall(t)
    \/ \E t \in CMTasks : FinishChannelCall(t)

SpecChanMgr == ChanMgrInit /\ [][ChanMgrNext]_vars

(***************************************************************************)
(* PeerManager (modules/rust/BuildModule.rs).  current_timestamp() is the  *)
(* field now, which the clock's action advances; the handshake of          *)
(* Peer::connect always succeeds, as the code's placeholder has it.  An    *)
(* Option<u64> is the empty set or the set of its one value.  Every call   *)
(* borrows the manager mutably or works on a &mut Peer borrowed from it,   *)
(* so no other call runs before it returns; the clock moves on all the     *)
(* same, and a call that reads it again reads what it shows then.          *)
(***************************************************************************)
HeartbeatTimeout == 30
PeerAddresses == {"p1", "p2"}
MaxPeersChoices == {1, 2}
BanDurations == {1, 2}

\* No call of the manager is under way
PeerCallIdle == [at |-> "idle"]

\* PeerManager::new; call is the position of the call under way
PeerManager_new(max_peers) ==
    [max_peers |-> max_peers, peers |-> <<>>, banned_peers |-> <<>>,
     now |-> 0, call |-> PeerCallIdle]

Peer_new(timestamp) ==
    [status |-> "Handshaking", last_heartbeat |-> timestamp,
     retry_count |-> 0, banned_until |-> {}]

\* Peer::connect up to handshake().await
Peer_connect(peer, timestamp) ==
    IF \E banned_until \in peer.banned_until : timestamp < banned_until
    THEN [err |-> "Peer is banned", peer |-> peer]
    ELSE [err |-> "Ok",
          peer |-> [peer EXCEPT !.banned_until = {},
                                !.status = "Handshaking"]]

\* Peer::connect after the handshake, with the clock as it is then
Peer_connected(peer, timestamp) ==
    [peer EXCEPT !.status = "Connected",
                 !.retry_count = 0,
                 !.last_heartbeat = timestamp]

Peer_disconnect(peer) == [peer EXCEPT !.status = "Disconnected"]

Peer_update_metrics(peer, timestamp) ==
    [peer EXCEPT !.last_heartbeat = timestamp]

Peer_ban(peer, timestamp, duration) ==
    [peer EXCEPT !.banned_until = {timestamp + duration},
                 !.status = "Banned"]

is_alive(peer, timestamp) ==
    timestamp - peer.last_heartbeat < HeartbeatTimeout

\* The connect under way on peer, for the call kind on address
Handshake(kind, address, peer) ==
    [at |-> "handshake", kind |-> kind, address |-> address, peer |-> peer]

\* add_peer without the test of the ban list
add_peer_ignoring_ban(self, address) ==
    IF Cardinality(DOMAIN self.peers) >= self.max_peers
    THEN [err |-> "Max peers reached", state |-> self]
    ELSE LET c == Peer_connect(Peer_new(self.now), self.now) IN
         [err |-> c.err,
          state |-> [self EXCEPT
              !.banned_peers = MapRemove(@, address),
              !.call = Handshake("add_peer", address, c.peer)]]

\* PeerManager::add_peer up to the handshake of peer.connect()
add_peer(self, address) ==
    IF Cardinality(DOMAIN self.peers) >= self.max_peers
    THEN [err |-> "Max peers reached", state |-> self]
    ELSE IF /\ address \in DOMAIN self.banned_peers
            /\ self.now < self.banned_peers[address]
    THEN [err |-> "Peer is banned", state |-> self]
    ELSE LET c == Peer_connect(Peer_new(self.now), self.now) IN
         [err |-> c.err,
          state |-> [self EXCEPT
              !.banned_peers = MapRemove(@, address),
              !.call = Handshake("add_peer", address, c.peer)]]

\* The rest of connect, and for add_peer the insert: the peer gets the
\* heartbeat of the clock as it is now
connected(self) ==
    [self EXCEPT
        !.peers = MapInsert(@, self.call.address,
                            Peer_connected(self.call.peer, self.now)),
        !.call = PeerCallIdle]

remove_peer(self, address) ==
    [err |-> "Ok", state |-> [self EXCEPT !.peers = MapRemove(@, address)]]

ban_peer(self, address, duration) ==
    IF address \in DOMAIN self.peers
    THEN [self EXCEPT
             !.peers = MapRemove(@, address),
             !.banned_peers = MapInsert(@, address, self.now + duration)]
    ELSE self

connected_peers(self) ==
    {a \in DOMAIN self.peers : self.peers[a].status = "Connected"}

\* monitor_peers begins: no peer is judged yet
monitor_peers(self) ==
    [self EXCEPT !.call = [at |-> "is_alive", todo |-> DOMAIN self.peers,
                           disconnected |-> {}]]

\* One turn of the first loop of monitor_peers: is_alive reads the clock
\* for this peer
monitor_peer(self, address) ==
    [self EXCEPT
        !.call.todo = @ \ {address},
        !.call.disconnected =
            IF is_alive(self.peers[address], self.now)
            THEN @ ELSE @ \cup {address}]

\* The second loop of monitor_peers: remove_peer for every address in
\* disconnected, and the call returns
remove_disconnected(self) ==
    [self EXCEPT
        !.peers = [a \in DOMAIN self.peers \ self.call.disconnected
                      |-> self.peers[a]],
        !.call = PeerCallIdle]

\* What a caller does with the &mut Peer that get_peer_mut hands out
PeerCalls ==
    {[kind |-> "connect"], [kind |-> "disconnect"],
     [kind |-> "update_metrics"]}
        \cup {[kind |-> "ban", duration |-> d] : d \in BanDurations}

\* The calls on a &mut Peer that return without waiting
peer_call(peer, call, timestamp) ==
    CASE call.kind = "disconnect" -> Peer_disconnect(peer)
      [] call.kind = "update_metrics" -> Peer_update_metrics(peer, timestamp)
      [] call.kind = "ban" -> Peer_ban(peer, timestamp, call.duration)

PeersInit ==
    /\ pm \in {PeerManager_new(n) : n \in MaxPeersChoices}
    /\ bm = [status |-> "None"]
    /\ ss = [status |-> "None"]
    /\ cm = [status |-> "None"]
    /\ mon = [status |-> "None"]
    /\ glast = NoOp
    /\ gsteps = 0
    /\ SMIdle
    /\ HIdle
    /\ CIdle
    /\ PIdle
    /\ FIdle

PeersStep ==
    /\ GFrame
    /\ gsteps < MaxPeerOps
    /\ gsteps' = gsteps + 1
    /\ UNCHANGED <<bm, ss, cm, mon>>

\* A call can begin: none is under way
PeersCall ==
    /\ PeersStep
    /\ pm.call = PeerCallIdle

AddPeer ==
    /\ PeersCall
    /\ \E address \in PeerAddresses :
        LET r == add_peer(pm, address) IN
        /\ pm' = r.state
        /\ glast' = [kind |-> "add_peer", address |-> address,
                     phase |-> IF r.err = "Ok" THEN "handshake" ELSE "return",
                     err |-> r.err]

\* The handshake of the connect under way is over: connect returns, and
\* add_peer inserts the peer and returns
Connected ==
    /\ PeersStep
    /\ pm.call.at = "handshake"
    /\ pm' = connected(pm)
    /\ glast' = [kind |-> pm.call.kind, address |-> pm.call.address,
                 phase |-> "return", err |-> "Ok"]

RemovePeer ==
    /\ PeersCall
    /\ \E address \in PeerAddresses :
        LET r == remove_peer(pm, address) IN
        /\ pm' = r.state
        /\ glast' = [kind |-> "remove_peer", address |-> address,
                     err |-> r.err]

BanPeer ==
    /\ PeersCall
    /\ \E address \in PeerAddresses, duration \in BanDurations :
        /\ pm' = ban_peer(pm, address, duration)
        /\ glast' = [kind |-> "ban_peer", address |-> address,
                     duration |-> duration, err |-> "Ok"]

\* get_peer_mut and a call on the peer it returns; connect goes on to its
\* handshake unless the peer's own ban rejects it
GetPeerMut ==
    /\ PeersCall
    /\ \E address \in PeerAddresses, call \in PeerCalls :
        IF address \notin DOMAIN pm.peers
        THEN /\ pm' = pm
             /\ glast' = [kind |-> "get_peer_mut", address |-> address,
                          call |-> call, some |-> FALSE, phase |-> "return",
                          err |-> "Ok"]
        ELSE IF call.kind = "connect"
        THEN LET r == Peer_connect(pm.peers[address], pm.now) IN
             /\ pm' = IF r.err = "Ok"
                      THEN [pm EXCEPT
                               !.peers[address] = r.peer,
                               !.call = Handshake("get_peer_mut", address,
                                                  r.peer)]
                      ELSE pm
             /\ glast' = [kind |-> "get_peer_mut", address |-> address,
                          call |-> call, some |-> TRUE,
                          phase |-> IF r.err = "Ok" THEN "handshake"
                                    ELSE "return",
                          err |-> r.err]
        ELSE /\ pm' = [pm EXCEPT !.peers[address] =
                           peer_call(pm.peers[address], call, pm.now)]
             /\ glast' = [kind |-> "get_peer_mut", address |-> address,
                          call |-> call, some |-> TRUE, phase |-> "return",
                          err |-> "Ok"]

ConnectedPeers ==
    /\ PeersCall
    /\ pm' = pm
    /\ glast' = [kind |-> "connected_peers", err |-> "Ok",
                 value |-> connected_peers(pm)]

\* monitor_peers is called; with no peer in the table both loops have no
\* turn and it returns
MonitorPeers ==
    /\ PeersCall
    /\ pm' = IF DOMAIN pm.peers = {} THEN pm ELSE monitor_peers(pm)
    /\ glast' = [kind |-> "monitor_peers",
                 phase |-> IF DOMAIN pm.peers = {} THEN "return"
                           ELSE "is_alive",
                 err |-> "Ok"]

\* is_alive for the next peer, in the order the HashMap yields them; after
\* the last one the peers found dead are removed and the call returns
MonitorPeer ==
    /\ PeersStep
    /\ pm.call.at = "is_alive"
    /\ \E address \in pm.call.todo :
        LET judged == monitor_peer(pm, address) IN
        /\ pm' = IF judged.call.todo = {}
                 THEN remove_disconnected(judged) ELSE judged
        /\ glast' = [kind |-> "monitor_peers",
                     phase |-> IF judged.call.todo = {} THEN "return"
                               ELSE "is_alive",
                     err |-> "Ok"]

\* Time passes: a second, or the heartbeat timeout
PeersTick ==
    /\ PeersStep
    /\ \E d \in {1, HeartbeatTimeout} :
        /\ pm' = [pm EXCEPT !.now = @ + d]
        /\ glast' = [kind |-> "tick", err |-> "Ok"]

PeersNext ==
    \/ AddPeer
    \/ Connected
    \/ RemovePeer
    \/ BanPeer
    \/ GetPeerMut
    \/ ConnectedPeers
    \/ MonitorPeers
    \/ MonitorPeer
    \/ PeersTick

SpecPeers == PeersInit /\ [][PeersNext]_vars

(***************************************************************************)
(* The background tasks: BridgeManager::start_monitoring,                  *)
(* PaymentProcessor::start_monitoring and NetworkManager::                 *)
(* start_peer_monitor.  Each spawns a detached task whose body is          *)
(* `loop { pass; wait }` with no exit; the owner's decision to shut down   *)
(* is the field shutdown, which no task reads.                             *)
(***************************************************************************)
MonitorTasks == {"bridge_monitor", "payment_monitor", "peer_monitor"}

Monitors_new ==
    [shutdown |-> FALSE,
     tasks |-> [t \in MonitorTasks |-> [pc |-> "not_started", ticks |-> 0]]]

\* tokio::spawn of the loop
spawn_monitor(self, t) ==
    [self EXCEPT !.tasks[t] = [pc |-> "looping", ticks |-> 0]]

\* One turn of the loop: the pass over the table and the wait for the
\* next tick; the loop has no break and no test of any signal
loop_turn(self, t) == [self EXCEPT !.tasks[t].ticks = @ + 1]

MonitorsInit ==
    /\ mon = Monitors_new
    /\ bm = [status |-> "None"]
    /\ ss = [status |-> "None"]
    /\ cm = [status |-> "None"]
    /\ pm = [status |-> "None"]
    /\ glast = NoOp
    /\ gsteps = 0
    /\ SMIdle
    /\ HIdle
    /\ CIdle
    /\ PIdle
    /\ FIdle

MonitorsStep ==
    /\ GFrame
    /\ gsteps < MaxMonitorOps
    /\ gsteps' = gsteps + 1
    /\ UNCHANGED <<bm, ss, cm, pm>>

StartMonitoring(t) ==
    /\ MonitorsStep
    /\ mon.tasks[t].pc = "not_started"
    /\ mon' = spawn_monitor(mon, t)
    /\ glast' = [kind |-> "start_monitoring", task |-> t, err |-> "Ok"]

LoopTurn(t) ==
    /\ MonitorsStep
    /\ mon.tasks[t].pc = "looping"
    /\ mon' = loop_turn(mon, t)
    /\ glast' = [kind |-> "tick", task |-> t, err |-> "Ok"]

\* The owner of the managers decides to shut down
SignalShutdown ==
    /\ MonitorsStep
    /\ ~mon.shutdown
    /\ mon' = [mon EXCEPT !.shutdown = TRUE]
    /\ glast' = [kind |-> "shutdown", err |-> "Ok"]

MonitorsNext ==
    \/ \E t \in MonitorTasks : StartMonitoring(t)
    \/ \E t \in MonitorTasks : LoopTurn(t)
    \/ SignalShutdown

SpecMonitors == MonitorsInit /\ [][MonitorsNext]_vars

(***************************************************************************)
(* The race of claim C1: one channel at sequence 0, and two tasks that     *)
(* each call update_channel_state once with a fully signed update of       *)
(* sequence 1.                                                             *)
(***************************************************************************)
RaceCalls ==
    {[kind |-> "update", channel_id |-> "c1",
      update |-> [channel_id |-> "c1", sequence |-> 1, timestamp |-> ts,
                  new_state |-> s, signatures |-> MakeSignatures(FullySigned, s)]] :
        ts \in {1, 2}, s \in StateHashes}

RaceInit ==
    /\ GIdle
    /\ TasksIdle
    /\ HIdle
    /\ CIdle
    /\ PIdle
    /\ FIdle
    /\ \E st \in {"Created"} \cup LoadedStatuses :
        /\ channel_states =
              MapInsert(EmptyMap, "c1",
                        [ChannelState_new("c1", <<"A", "B">>, 10) EXCEPT !.status = st])
        /\ persisted_channels = channel_states
    /\ update_log = <<>>

\* A task makes its call while the other has not returned and the stored
\* sequence is still 0: the calls overlap and both carry current + 1.
RaceCall(t) ==
    /\ pc[t] = "idle"
    /\ \A u \in Tasks : pc[u] # "done"
    /\ channel_states["c1"].sequence = 0
    /\ \E call \in RaceCalls : Enter(t, call, "u_wait_r1")

RaceNext ==
    \E t \in Tasks :
        \/ RaceCall(t)
        \/ UpdateVerifySequence(t)
        \/ UpdateRequestSignatures(t)
        \/ UpdateVerifySignatures(t)
        \/ UpdateRequestWrite(t)
        \/ UpdateCommit(t)

SpecRace == RaceInit /\ [][RaceNext]_vars

\* A task in a handler that can take its next step
CanStep(t) ==
    \/ pc[t] \in {"u_r1", "u_verified"}
    \/ pc[t] \in {"u_wait_r1", "u_wait_r2", "g_wait_r"} /\ ReadGranted(t)
    \/ pc[t] \in {"u_wait_w", "c_wait_w", "x_wait_w"} /\ WriteGranted(t)
InHandler(t) == pc[t] \notin {"idle", "done"}

(***************************************************************************)
(* Claims about the StateManager                                           *)
(***************************************************************************)
ReturnsAt(t) == pc[t] # "done" /\ pc'[t] = "done"

\* C1: when two update_channel_state calls with the same sequence number
\* (current + 1) run concurrently on one channel, in every interleaving
\* both calls return, exactly one of them with Ok and the other with an
\* error, and the stored sequence has advanced by exactly 1.
C1_ExactlyOneSucceeds ==
    /\ (\A t \in Tasks : pc[t] = "done") =>
          /\ Cardinality({t \in Tasks : result[t].err = "Ok"}) = 1
          /\ channel_states["c1"].sequence = 1
    /\ (\E t \in Tasks : InHandler(t)) => (\E t \in Tasks : CanStep(t))

\* C2: an update is accepted only when its sequence number is the stored
\* one plus 1; any other sequence number is answered with an error and
\* leaves the channel map as it was.
C2_SequenceChecked ==
    [][\A t \in Tasks :
        (op[t].kind = "update" /\ ReturnsAt(t)
            /\ op[t].channel_id \in DOMAIN channel_states) =>
          LET current == channel_states[op[t].channel_id] IN
          /\ result'[t].err = "Ok" =>
                /\ op[t].update.sequence = current.sequence + 1
                /\ channel_states'[op[t].channel_id].sequence = current.sequence + 1
          /\ op[t].update.sequence # current.sequence + 1 =>
                /\ result'[t].err \in {"InvalidTransition", "NotFound"}
                /\ channel_states' = channel_states]_vars

C2_Witness ==
    \E t, u \in Tasks :
        /\ result[t] = Returned("update", "Ok")
        /\ result[u] = Returned("update", "InvalidTransition")
        /\ \E c \in DOMAIN channel_states : channel_states[c].sequence = 1

\* The sequence numbers persisted for a channel, in persisted order
PersistedSequences(c) ==
    LET mine == SelectSeq(update_log, LAMBDA u : u.channel_id = c)
    IN  [i \in 1..Len(mine) |-> mine[i].sequence]

\* C3: for every channel the sequence numbers of the durably persisted
\* updates, in persisted order, are 1, 2, 3, ... with no gap and no repeat.
C3_PersistedGapFree ==
    \A c \in Channels :
        PersistedSequences(c) = [i \in 1..Len(PersistedSequences(c)) |-> i]

\* C4: no update is accepted whose signatures map lacks a participant of
\* the channel or holds a signature that is not valid for its address over
\* new_state.
C4_SignatureSoundness ==
    [][\A t \in Tasks :
        (op[t].kind = "update" /\ ReturnsAt(t) /\ result'[t].err = "Ok") =>
          LET u == op[t].update
              parts == channel_states[op[t].channel_id].participants IN
          /\ \A i \in 1..Len(parts) : parts[i] \in DOMAIN u.signatures
          /\ \A a \in DOMAIN u.signatures :
                IsValidSignature(a, u.new_state, u.signatures[a])]_vars

\* C5: a call of update_channel_state, create_channel_state or
\* close_channel_state whose persistence call fails returns an error and
\* leaves the in-memory channel map exactly as it was before the call.
C5_PersistenceFailureLeavesMap ==
    [][\A t \in Tasks :
        (ReturnsAt(t) /\ result'[t].err = "PersistenceError") =>
            channel_states' = channel_states]_vars

\* C6: on a channel just created (sequence 0, two participants) an update
\* of sequence 1 submitted with an empty signatures map is accepted, its
\* persistence aside, and get_channel_state then reports sequence 1.
C6_TestUpdateAccepted ==
    [][\A t \in Tasks :
        (/\ op[t].kind = "update" /\ ReturnsAt(t)
         /\ op[t].channel_id \in DOMAIN channel_states
         /\ channel_states[op[t].channel_id] =
                ChannelState_new(op[t].channel_id, <<"A", "B">>, 10)
         /\ op[t].update.channel_id = op[t].channel_id
         /\ op[t].update.sequence = 1
         /\ op[t].update.signatures = EmptyMap) =>
          /\ result'[t].err \in {"Ok", "PersistenceError"}
          /\ LET got == get_channel_state(channel_states', op[t].channel_id) IN
                got.err = "Ok" /\ got.value.sequence = 1]_vars

\* C7: close_channel_state on a channel just created returns Ok, its
\* persistence aside, and get_channel_state then returns an error.
C7_TestCloseAccepted ==
    [][\A t \in Tasks :
        (/\ op[t].kind = "close" /\ ReturnsAt(t)
         /\ op[t].channel_id \in DOMAIN channel_states
         /\ channel_states[op[t].channel_id] =
                ChannelState_new(op[t].channel_id, <<"A", "B">>, 10)) =>
          /\ result'[t].err \in {"Ok", "PersistenceError"}
          /\ result'[t].err = "Ok" =>
                get_channel_state(channel_states', op[t].channel_id).err = "NotFound"]_vars

(***************************************************************************)
(* Claims about the two ChannelState types                                 *)
(***************************************************************************)
SumBalances(self) ==
    SumOver([a \in DOMAIN self.balances |->
                self.balances[a].amount + self.balances[a].locked],
            DOMAIN self.balances)
SumFree(self) ==
    SumOver([a \in DOMAIN self.balances |-> self.balances[a].amount],
            DOMAIN self.balances)
PendingHtlcs(self) == {i \in DOMAIN self.htlcs : self.htlcs[i].status = "Pending"}
PendingAmount(self) ==
    SumOver([i \in DOMAIN self.htlcs |-> self.htlcs[i].amount], PendingHtlcs(self))

\* C8 as stated: after any calls of create_htlc and fulfill_htlc, the sum
\* over the participants of free + locked, plus the amounts of the Pending
\* HTLCs, is at most the capacity.
C8_ConservationCountingHtlcs ==
    SumBalances(hs) + PendingAmount(hs) <= hs.capacity

\* C8 as amended: after any calls of create_htlc and fulfill_htlc, the sum
\* over the participants of free + locked is at most the capacity, and so
\* is the sum of the free balances plus the amounts of the Pending HTLCs.
C8_Conservation ==
    /\ SumBalances(hs) <= hs.capacity
    /\ SumFree(hs) + PendingAmount(hs) <= hs.capacity

C8_Witness ==
    /\ \E i \in DOMAIN hs.htlcs :
          hs.htlcs[i].status = "Pending" /\ hs.htlcs[i].amount > 0
    /\ \E i \in DOMAIN hs.htlcs :
          hs.htlcs[i].status = "Fulfilled" /\ hs.htlcs[i].amount > 0

HtlcCalled(k) == hsteps' # hsteps /\ hlast'.kind = k
LockCalled(k) == csteps' # csteps /\ clast'.kind = k

\* fulfill_htlc succeeds exactly when the HTLC exists, is Pending and the
\* preimage hashes to its hash lock; a failed call changes nothing
FulfillSound ==
    HtlcCalled("fulfill_htlc") =>
        LET id == hlast'.htlc_id
            matches == /\ id \in DOMAIN hs.htlcs
                       /\ hs.htlcs[id].status = "Pending"
                       /\ keccak256(hlast'.preimage) = hs.htlcs[id].hash_lock
        IN  /\ hlast'.err = "Ok" <=> matches
            /\ ~matches => hs' = hs

\* unlock releases a lock only when the secret hashes to its secret_hash; a
\* call with another secret fails and changes nothing
UnlockSound ==
    (LockCalled("unlock") /\ clast'.lock_id \in DOMAIN cs.locks) =>
        LET matches ==
                keccak256(clast'.secret) = cs.locks[clast'.lock_id].secret_hash
        IN  /\ clast'.err = "Ok" => matches
            /\ ~matches => clast'.err = "InvalidLock" /\ cs' = cs

\* C9: fulfill_htlc succeeds iff the HTLC exists, is Pending and the
\* preimage hashes to its hash lock, unlock releases a lock only when the
\* secret hashes to the lock's secret_hash, and a call with a non-matching
\* preimage fails and leaves balances, locked amounts and the HTLC or lock
\* as they were.
C9_PreimageSoundness == [][FulfillSound /\ UnlockSound]_vars

\* create_htlc for an id that is already in htlcs, by a sender who can pay,
\* is rejected with LockExists and changes nothing
DuplicateHtlcRejected ==
    (/\ HtlcCalled("create_htlc")
     /\ generate_htlc_id(hlast'.sender, hlast'.receiver, hlast'.amount,
                         hlast'.hash_lock) \in DOMAIN hs.htlcs
     /\ hlast'.sender \in DOMAIN hs.balances
     /\ hlast'.receiver \in SeqToSet(hs.participants)
     /\ hs.balances[hlast'.sender].amount >= hlast'.amount) =>
        hlast'.err = "LockExists" /\ hs' = hs

\* create_lock for a lock id that is already in locks, by a sender who can
\* pay, is rejected with LockExists and changes nothing
DuplicateLockRejected ==
    (/\ LockCalled("create_lock")
     /\ generate_lock_id(clast'.sender, clast'.recipient, clast'.amount,
                         clast'.secret_hash) \in DOMAIN cs.locks
     /\ clast'.sender \in DOMAIN cs.balances
     /\ cs.balances[clast'.sender] >= clast'.amount) =>
        clast'.err = "LockExists" /\ cs' = cs

\* C10: create_htlc with arguments whose derived id is already present in
\* htlcs is rejected with LockExists and leaves balances, locked amounts
\* and the htlcs map unchanged, and so is create_lock when the derived
\* lock id already exists.
C10_DuplicateRejected == [][DuplicateHtlcRejected /\ DuplicateLockRejected]_vars


(***************************************************************************)
(* Claims about the boundaries of the pure channel-state operations        *)
(***************************************************************************)
\* A create_htlc step between two participants, whose sender has a balance
BoundaryHtlc ==
    (HtlcCalled("create_htlc")
        /\ hlast'.sender \in SeqToSet(hs.participants)
        /\ hlast'.receiver \in SeqToSet(hs.participants)
        /\ hlast'.sender \in DOMAIN hs.balances) =>
      LET before == hs.balances[hlast'.sender]
          after == hs'.balances[hlast'.sender] IN
      /\ hlast'.amount = before.amount =>
            /\ hlast'.err = "Ok"
            /\ after.amount = 0
            /\ after.locked = before.locked + hlast'.amount
      /\ hlast'.amount = before.amount + 1 =>
            /\ hlast'.err = "InvalidBalance"
            /\ hs' = hs

\* A create_lock step whose sender has a balance and whose lock id is free
BoundaryLock ==
    (LockCalled("create_lock")
        /\ clast'.sender \in DOMAIN cs.balances
        /\ generate_lock_id(clast'.sender, clast'.recipient, clast'.amount,
                            clast'.secret_hash) \notin DOMAIN cs.locks) =>
      /\ clast'.amount = cs.balances[clast'.sender] =>
            /\ clast'.err = "Ok"
            /\ cs'.balances[clast'.sender] = 0
            /\ cs'.total_locked = cs.total_locked + clast'.amount
      /\ clast'.amount = cs.balances[clast'.sender] + 1 =>
            /\ clast'.err = "InvalidBalance"
            /\ cs' = cs

\* C11: creating an HTLC (or a lock) of exactly the sender's free balance
\* is accepted, leaves the sender's free balance 0 and raises the locked
\* amount by the amount; creating one of the free balance plus 1 is
\* rejected with InvalidBalance and leaves the state unchanged.
C11_BoundaryChecked == [][BoundaryHtlc /\ BoundaryLock]_vars

\* A create_htlc or fulfill_htlc step moves the sequence number by 1 when
\* it succeeds and not at all when it fails
HtlcStepBumpsSequence ==
    hsteps' # hsteps =>
        hs'.sequence = hs.sequence + (IF hlast'.err = "Ok" THEN 1 ELSE 0)

\* The same for transfer, create_lock, unlock and expire_lock
LockStepBumpsSequence ==
    csteps' # csteps =>
        cs'.sequence_number =
            cs.sequence_number + (IF clast'.err = "Ok" THEN 1 ELSE 0)

\* C12: every successful pure channel-state transition (create_htlc,
\* fulfill_htlc; transfer, create_lock, unlock, expire_lock) increases the
\* state's sequence number by exactly 1 and every rejected one leaves it
\* unchanged.
C12_SequenceBumped == [][HtlcStepBumpsSequence /\ LockStepBumpsSequence]_vars

\* C13: expire_lock on an existing lock is accepted when current_height is
\* the lock's expiration_height or larger, and is rejected with InvalidLock,
\* leaving the state unchanged, when current_height is smaller.
C13_ExpiryBoundary ==
    [][(LockCalled("expire_lock") /\ clast'.lock_id \in DOMAIN cs.locks) =>
        LET lock == cs.locks[clast'.lock_id] IN
        /\ clast'.current_height >= lock.expiration_height =>
              /\ clast'.err = "Ok"
              /\ clast'.lock_id \notin DOMAIN cs'.locks
        /\ clast'.current_height < lock.expiration_height =>
              /\ clast'.err = "InvalidLock"
              /\ cs' = cs]_vars

\* A lock with expiration height 1 has been expired at height 1
C13_Witness ==
    /\ clast.kind = "expire_lock"
    /\ clast.err = "Ok"
    /\ clast.current_height = 1
    /\ cs.locks = EmptyMap
    /\ cs.sequence_number = 2

\* The free balance an address holds; an address without an entry holds 0
BalanceOf(self, a) == IF a \in DOMAIN self.balances THEN self.balances[a] ELSE 0

\* C14: a successful expire_lock returns the locked amount to the sender
\* that created the lock: after create_lock(A, B, amount, ...) followed by
\* a successful expire_lock, A's free balance is what it was before
\* create_lock, total_locked is back to its prior value and no other
\* address's balance has changed.
C14_ExpiryRefundsSender ==
    [][(/\ LockCalled("expire_lock") /\ clast'.err = "Ok"
        /\ clast.kind = "create_lock" /\ clast.err = "Ok") =>
          /\ \A a \in (DOMAIN cs.balances) \cup (DOMAIN cs'.balances) :
                BalanceOf(cs', a) =
                    BalanceOf(cs, a) + (IF a = clast.sender THEN clast.amount ELSE 0)
          /\ cs'.total_locked = cs.total_locked - clast.amount]_vars

\* C15: transfer(from, to, amount) succeeds only if from and to both have
\* an entry in balances and free[from] >= amount; a transfer whose
\* recipient has no entry is rejected with MissingParticipant and the set
\* of balance holders is unchanged.
C15_TransferParticipants ==
    [][LockCalled("transfer") =>
        /\ clast'.err = "Ok" =>
              /\ clast'.from \in DOMAIN cs.balances
              /\ clast'.to \in DOMAIN cs.balances
              /\ cs.balances[clast'.from] >= clast'.amount
        /\ clast'.to \notin DOMAIN cs.balances =>
              /\ clast'.err = "MissingParticipant"
              /\ DOMAIN cs'.balances = DOMAIN cs.balances]_vars

\* C16: a successful transfer(from, to, amount) between two balance holders
\* takes amount from free[from] and adds it to free[to], leaves every other
\* balance, the locks and total_locked unchanged and so preserves the sum
\* of the balances; with amount 0 it is accepted and changes nothing but
\* the sequence number.
C16_TransferEffect ==
    [][(LockCalled("transfer") /\ clast'.from \in DOMAIN cs.balances
            /\ clast'.to \in DOMAIN cs.balances) =>
        /\ clast'.err = "Ok" =>
              /\ cs'.balances =
                    [a \in DOMAIN cs.balances |->
                        cs.balances[a]
                          - (IF a = clast'.from THEN clast'.amount ELSE 0)
                          + (IF a = clast'.to THEN clast'.amount ELSE 0)]
              /\ cs'.locks = cs.locks
              /\ cs'.total_locked = cs.total_locked
              /\ SumOver(cs'.balances, DOMAIN cs'.balances) =
                    SumOver(cs.balances, DOMAIN cs.balances)
        /\ clast'.amount = 0 =>
              /\ clast'.err = "Ok"
              /\ cs' = [cs EXCEPT !.sequence_number = @ + 1]]_vars

\* A has transferred 1 to B
C16_Witness ==
    /\ clast = [kind |-> "transfer", from |-> "A", to |-> "B", amount |-> 1,
                err |-> "Ok"]
    /\ cs.balances["B"] >= 1
    /\ cs.sequence_number = 1

\* C17: close() moves status Active to Closing and Closing to Closed, and
\* fails with InvalidTransition, leaving the state unchanged, from every
\* other status (Created, Closed, Disputed); Closed is terminal under
\* close().
C17_CloseTransitions ==
    [][HtlcCalled("close") =>
        /\ hs.status = "Active" =>
              hlast'.err = "Ok" /\ hs' = [hs EXCEPT !.status = "Closing"]
        /\ hs.status = "Closing" =>
              hlast'.err = "Ok" /\ hs' = [hs EXCEPT !.status = "Closed"]
        /\ hs.status \in {"Created", "Closed", "Disputed"} =>
              hlast'.err = "InvalidTransition" /\ hs' = hs]_vars

\* An Active channel closed three times: Closing, Closed, and then refused
C17_Witness ==
    /\ hlast = [kind |-> "close", err |-> "InvalidTransition"]
    /\ hs.status = "Closed"
    /\ hsteps = 3

(***************************************************************************)
(* Claims about the status of a channel in the StateManager                *)
(***************************************************************************)
\* C18: a channel made by create_channel_state is in its initial status
\* (Created), and after any update accepted by update_channel_state on a
\* channel that is Created or Active the channel's status is Active.
C18_ActiveAfterUpdate ==
    [][\A t \in Tasks :
        /\ (op[t].kind = "create" /\ ReturnsAt(t) /\ result'[t].err = "Ok") =>
              channel_states'[op[t].channel_id].status = "Created"
        /\ (/\ op[t].kind = "update" /\ ReturnsAt(t) /\ result'[t].err = "Ok"
            /\ channel_states[op[t].channel_id].status \in {"Created", "Active"}) =>
              channel_states'[op[t].channel_id].status = "Active"]_vars

(***************************************************************************)
(* Claims about payments                                                   *)
(***************************************************************************)
TerminalStatuses == {"Success", "Failed", "TimedOut"}

\* C19: for every payment_hash, over any sequence of init_payment,
\* process_hop, complete_payment, fail_payment and
\* cleanup_timed_out_payments calls, failing calls included, the status
\* stored in payment_statuses only moves forward: a terminal status
\* (Success, Failed, TimedOut) is never replaced by a different status and
\* InFlight never returns to Pending.
C19_StatusMonotonic ==
    [][\A h \in DOMAIN pp.payment_statuses :
        /\ h \in DOMAIN pp'.payment_statuses
        /\ pp.payment_statuses[h] \in TerminalStatuses =>
              pp'.payment_statuses[h] = pp.payment_statuses[h]
        /\ pp.payment_statuses[h] = "InFlight" =>
              pp'.payment_statuses[h] # "Pending"]_vars

\* The HTLCs recorded for a payment that have not been rolled back.  An
\* HtlcInfo carries no status and is never removed from the list, so every
\* recorded HTLC is outstanding.
OutstandingHtlcs(h) == IF h \in DOMAIN pp.htlcs THEN pp.htlcs[h] ELSE <<>>

\* C20: HTLC atomicity.  After send_payment returns Success every hop of
\* the route has an HTLC that was committed; after a payment has ended
\* Failed no HTLC recorded for its payment_hash remains outstanding.
C20_HtlcAtomicity ==
    /\ (plast.kind = "send_payment" /\ plast.err = "Ok"
            /\ plast.value = "Success") =>
          Len(OutstandingHtlcs(plast.payment_hash)) = plast.hops
    /\ \A h \in DOMAIN pp.payment_statuses :
          pp.payment_statuses[h] = "Failed" => OutstandingHtlcs(h) = <<>>

\* C21: concurrent PaymentProcessor calls never deadlock: in every
\* interleaving, whenever some call has not returned, some call can take
\* its next lock or return.
C21_NoDeadlock ==
    (\E t \in PTasks : InCall(t)) =>
        (\E t \in PTasks : Grantable(t) \/ HasAllLocks(t))

\* A step of SpecPay that is a call of kind k
PayCalled(k) == psteps' # psteps /\ plast'.kind = k

\* A map is as it was except, possibly, at key h
SameBut(after, before, h) ==
    /\ (DOMAIN after) \ {h} = (DOMAIN before) \ {h}
    /\ \A k \in (DOMAIN before) \ {h} : after[k] = before[k]

\* C22: init_payment for a payment_hash that is active is rejected with an
\* error and leaves active_payments, payment_statuses and htlcs unchanged;
\* for a hash that is not active it records the payment as active with
\* status Pending and an empty HTLC list, and touches no other payment.
C22_InitPayment ==
    [][PayCalled("init_payment") =>
        LET h == plast'.payment_hash IN
        /\ h \in DOMAIN pp.active_payments =>
              /\ plast'.err = "PaymentFailed"
              /\ pp' = pp
        /\ h \notin DOMAIN pp.active_payments =>
              /\ plast'.err = "Ok"
              /\ h \in DOMAIN pp'.active_payments
              /\ pp'.active_payments[h].payment_hash = h
              /\ pp'.payment_statuses[h] = "Pending"
              /\ pp'.htlcs[h] = <<>>
              /\ SameBut(pp'.active_payments, pp.active_payments, h)
              /\ SameBut(pp'.payment_statuses, pp.payment_statuses, h)
              /\ SameBut(pp'.htlcs, pp.htlcs, h)
              /\ pp'.results = pp.results]_vars

\* A second init_payment for an active payment has been rejected after the
\* payment's first hop was processed
C22_Witness ==
    /\ plast.kind = "init_payment"
    /\ plast.err = "PaymentFailed"
    /\ plast.payment_hash \in DOMAIN pp.active_payments
    /\ pp.payment_statuses[plast.payment_hash] = "InFlight"
    /\ Len(pp.htlcs[plast.payment_hash]) = 1

\* C23: complete_payment(h) on an active payment returns Ok, sets the
\* status of h to Success, removes h from active_payments and stores a
\* PaymentResult with status Success and fees_paid = route.total_fees;
\* fail_payment(h, reason) on an active payment returns Ok, sets the status
\* to Failed and stores a PaymentResult with status Failed, fees_paid = 0
\* and failure_reason = reason.
C23_FinishRecordsResult ==
    [][/\ (PayCalled("complete_payment")
              /\ plast'.payment_hash \in DOMAIN pp.active_payments) =>
            LET h == plast'.payment_hash IN
            /\ plast'.err = "Ok"
            /\ pp'.payment_statuses[h] = "Success"
            /\ h \notin DOMAIN pp'.active_payments
            /\ h \in DOMAIN pp'.results
            /\ pp'.results[h].status = "Success"
            /\ pp'.results[h].fees_paid = pp.active_payments[h].route.total_fees
       /\ (PayCalled("fail_payment")
              /\ plast'.payment_hash \in DOMAIN pp.active_payments) =>
            LET h == plast'.payment_hash IN
            /\ plast'.err = "Ok"
            /\ pp'.payment_statuses[h] = "Failed"
            /\ h \in DOMAIN pp'.results
            /\ pp'.results[h].status = "Failed"
            /\ pp'.results[h].fees_paid = 0
            /\ pp'.results[h].failure_reason = plast'.reason]_vars

\* C24: cleanup_timed_out_payments moves exactly the active payments with
\* now > timestamp + 300 to status TimedOut and removes them from
\* active_payments; active payments at or under the deadline keep their
\* status and stay active, and finished payments are not touched.
C24_CleanupExact ==
    [][PayCalled("cleanup_timed_out_payments") =>
        /\ \A h \in DOMAIN pp.active_payments :
              IF now > pp.active_payments[h].timestamp + PaymentTimeout
              THEN /\ pp'.payment_statuses[h] = "TimedOut"
                   /\ h \notin DOMAIN pp'.active_payments
              ELSE /\ pp'.payment_statuses[h] = pp.payment_statuses[h]
                   /\ h \in DOMAIN pp'.active_payments
                   /\ pp'.active_payments[h] = pp.active_payments[h]
        /\ \A h \in (DOMAIN pp.payment_statuses) \ (DOMAIN pp.active_payments) :
              pp'.payment_statuses[h] = pp.payment_statuses[h]
        /\ pp'.results = pp.results
        /\ pp'.htlcs = pp.htlcs]_vars

\* C25: for a route of at least one hop, a payment driven by send_payment
\* has status InFlight once its first hop has been committed, and its
\* status never goes from Pending directly to Success.
C25_InFlightBeforeSuccess ==
    [][/\ \A t \in PTasks :
            (InCall(t)' /\ ptask'[t].got >= 1) =>
                pp'.payment_statuses[ptask'[t].payment_hash] = "InFlight"
       /\ \A h \in DOMAIN pp.payment_statuses :
            (/\ pp.payment_statuses[h] = "Pending"
             /\ h \in DOMAIN pp.active_payments
             /\ Len(pp.active_payments[h].route.channels) >= 1) =>
                pp'.payment_statuses[h] # "Success"]_vars


\* The node a walk along path from node ends at, "none" when a channel of
\* the path is unknown or does not touch the node reached so far
RECURSIVE WalkEnd(_, _, _)
WalkEnd(channels, node, path) ==
    IF path = <<>> THEN node
    ELSE IF Head(path) \notin DOMAIN channels THEN "none"
    ELSE IF channels[Head(path)].source = node
    THEN WalkEnd(channels, channels[Head(path)].target, Tail(path))
    ELSE IF channels[Head(path)].target = node
    THEN WalkEnd(channels, channels[Head(path)].source, Tail(path))
    ELSE "none"

\* The nodes a walk along path from node passes, the first one included
WalkNodes(channels, node, path) ==
    [i \in 1..(Len(path) + 1) |-> WalkEnd(channels, node, SubSeq(path, 1, i - 1))]

\* The paths from source to target that pass no node twice, have at most
\* max_hops channels, and use only channels of capacity at least amount
EligiblePaths(self, source, target, amount, max_hops) ==
    {q \in UNION {[1..n -> DOMAIN self.channels] : n \in 0..max_hops} :
        /\ WalkEnd(self.channels, source, q) = target
        /\ \A i, j \in 1..(Len(q) + 1) :
              i # j => WalkNodes(self.channels, source, q)[i]
                         # WalkNodes(self.channels, source, q)[j]
        /\ \A i \in 1..Len(q) : self.channels[q[i]].capacity >= amount}

\* A call of this kind returns in this step
PathCalled(k) ==
    /\ pflast'.kind = k
    /\ \/ \E t \in FTasks : Busy(t) /\ ~Busy(t)'
       \/ pfsteps' # pfsteps /\ pftask' = pftask

\* find_paths returns paths, and no other call has begun since the
\* network was set up
FoundPathsAlone ==
    PathCalled("find_paths") /\ pflast'.err = "Ok" /\ pfsteps' = 1

CostFound(path) == calculate_path_cost(path, pflast'.amount, pf'.channels)

\* C26: find_paths returns at most 3 paths in non-decreasing order of cost,
\* no cost is negative, and no eligible path that is cheaper than a
\* returned path is missing from the result.
C26_BestPaths ==
    [][FoundPathsAlone =>
        /\ Len(pflast'.value) <= MaxPathsReturned
        /\ \A i, j \in 1..Len(pflast'.value) :
              i < j => CostFound(pflast'.value[i]) <= CostFound(pflast'.value[j])
        /\ \A i \in 1..Len(pflast'.value) : CostFound(pflast'.value[i]) >= 0
        /\ \A q \in EligiblePaths(pf', pflast'.source, pflast'.target,
                                  pflast'.amount, pflast'.max_hops) :
              (\E i \in 1..Len(pflast'.value) :
                    CostFound(q) < CostFound(pflast'.value[i]))
                 => \E j \in 1..Len(pflast'.value) : pflast'.value[j] = q]_vars


\* The PathStates a task's loop holds, and the paths it has found
StatesHeld(task) ==
    IF task.at \in {"search_nodes", "search_channels"}
    THEN task.search.queue \cup {task.search.current} ELSE {}

\* path extends the path of the PathState current by one channel that
\* joins current's node to node, has capacity for the amount, and keeps the
\* path within max_hops
PushedWithinLimits(self, call, current, path, node) ==
    \E c \in DOMAIN self.channels :
        /\ path = Append(current.path, c)
        /\ self.channels[c].capacity >= call.amount
        /\ Len(path) <= call.max_hops
        /\ current.node \in {self.channels[c].source, self.channels[c].target}
        /\ node \in {self.channels[c].source, self.channels[c].target}

\* C27: every path find_paths returns has at most policy.max_hops channels;
\* every PathState the search pushes, and so every path it returns, goes
\* over a channel that had capacity for the amount when the search read
\* it; a successful call never returns an empty list and a failed call
\* returns NoRoute and no list.  For a call no other call runs beside, the
\* channels of the returned paths have capacity for the amount when the
\* call returns, the paths lead from the source to the target, and a call
\* for which no path within the limits connects the two returns NoRoute.
C27_PathsWithinLimits ==
    [][/\ PathCalled("find_paths") =>
            /\ pflast'.err \in {"Ok", "NoRoute"}
            /\ pflast'.err = "NoRoute" => pflast'.value = <<>>
            /\ pflast'.err = "Ok" =>
                  /\ pflast'.value # <<>>
                  /\ \A i \in 1..Len(pflast'.value) :
                        Len(pflast'.value[i]) <= pflast'.max_hops
            /\ pfsteps' = 1 =>
                  /\ \A i \in 1..Len(pflast'.value) :
                        LET q == pflast'.value[i] IN
                        /\ \A k \in 1..Len(q) :
                              /\ q[k] \in DOMAIN pf'.channels
                              /\ pf'.channels[q[k]].capacity >= pflast'.amount
                        /\ WalkEnd(pf'.channels, pflast'.source, q)
                              = pflast'.target
                  /\ EligiblePaths(pf', pflast'.source, pflast'.target,
                                   pflast'.amount, pflast'.max_hops) = {}
                        => pflast'.err = "NoRoute"
       /\ \A t \in FTasks :
            (pftask[t].at = "search_channels" /\ pftask'[t] # pftask[t]) =>
                LET call == pftask[t].call
                    current == pftask[t].search.current
                    found == IF Busy(t)' /\ pftask'[t].at = "search_nodes"
                             THEN pftask'[t].search.paths
                             ELSE IF call.kind = "find_paths"
                             THEN pflast'.value
                             ELSE pftask[t].search.paths
                IN  /\ \A s \in StatesHeld(pftask'[t]) \ StatesHeld(pftask[t]) :
                          PushedWithinLimits(pf, call, current, s.path, s.node)
                    /\ \A i \in (Len(pftask[t].search.paths) + 1)..Len(found) :
                          \/ \E s \in pftask[t].search.queue :
                                s.path = found[i] /\ s.node = call.target
                          \/ PushedWithinLimits(pf, call, current, found[i],
                                                call.target)]_vars

\* A search that left out channel 4 for its capacity and returned the one
\* path of max_hops channels
C27_Witness ==
    /\ pflast.kind = "find_paths"
    /\ pflast.err = "Ok"
    /\ pflast.amount = 2 * FeeDivisor
    /\ 4 \in DOMAIN pf.channels
    /\ pf.channels[4].capacity < pflast.amount
    /\ pflast.max_hops = 2
    /\ pflast.value = <<<<1, 3>>>>


\* The last n entries of seq, all of seq when it has no more than n
LastN(seq, n) ==
    IF Len(seq) <= n THEN seq ELSE SubSeq(seq, Len(seq) - n + 1, Len(seq))

HistoryOf(self, c) ==
    IF c \in DOMAIN self.reliability_history
    THEN self.reliability_history[c] ELSE <<>>

\* C28: record_payment_result appends the outcome to the history of every
\* channel of the path and keeps the most recent 100 entries in order, no
\* history ever has more than 100 entries, the histories of other channels
\* are untouched; get_channel_reliability returns successes / |history|,
\* and 1 for a channel with no history.
C28_ReliabilityHistory ==
    [][/\ PathCalled("record_payment_result") =>
            /\ \A c \in DOMAIN pf'.reliability_history :
                  /\ Len(pf'.reliability_history[c]) <= HistoryLimit
                  /\ IF \E i \in 1..Len(pflast'.path) : pflast'.path[i] = c
                     THEN pf'.reliability_history[c] =
                            LastN(Append(HistoryOf(pf, c), pflast'.success),
                                  HistoryLimit)
                     ELSE /\ c \in DOMAIN pf.reliability_history
                          /\ pf'.reliability_history[c] = pf.reliability_history[c]
            /\ \A i \in 1..Len(pflast'.path) :
                  pflast'.path[i] \in DOMAIN pf'.reliability_history
            /\ DOMAIN pf.reliability_history \subseteq DOMAIN pf'.reliability_history
       /\ PathCalled("get_channel_reliability") =>
            LET history == HistoryOf(pf, pflast'.channel_id)
                successes == Cardinality({i \in 1..Len(history) : history[i]})
            IN  IF history = <<>>
                THEN pflast'.value.num = pflast'.value.den
                ELSE pflast'.value.num * Len(history)
                        = successes * pflast'.value.den]_vars

\* A result was recorded on a full history: the oldest outcome, a failure,
\* is gone and the history still has 100 entries
C28_Witness ==
    /\ pflast.kind = "record_payment_result"
    /\ 2 \in DOMAIN pf.reliability_history
    /\ Len(pf.reliability_history[2]) = HistoryLimit
    /\ pf.reliability_history[2][1] = TRUE
    /\ pf.reliability_history[2][HistoryLimit] = pflast.success


\* The cost term 1000 * (1 - successes / |history|) of a channel
EmpiricalReliabilityCost(self, c) ==
    reliability_cost(get_channel_reliability(self, c))

\* C29: for every path find_paths returns, the cost the search gave it is
\* the sum over its channels of fee + 10 * timelock_delta +
\* 1000 * (1 - successes / |history|), with the ratio taken from the
\* outcomes record_payment_result has recorded for the channel.
C29_EmpiricalReliabilityInCost ==
    [][FoundPathsAlone =>
        \A i \in 1..Len(pflast'.value) :
            \A k \in 1..Len(pflast'.value[i]) :
                LET c == pflast'.value[i][k] IN
                channel_cost(pf'.channels[c], pflast'.amount) =
                    (pflast'.amount * pf'.channels[c].fee_rate) \div FeeDivisor
                      + pf'.channels[c].timelock_delta * TimelockWeight
                      + EmpiricalReliabilityCost(pf', c)]_vars


RECURSIVE SumOfFees(_)
SumOfFees(hops) ==
    IF hops = <<>> THEN 0 ELSE Head(hops).fee + SumOfFees(Tail(hops))

RECURSIVE SumOfTimelocks(_)
SumOfTimelocks(hops) ==
    IF hops = <<>> THEN 0 ELSE Head(hops).timelock + SumOfTimelocks(Tail(hops))

\* The route keeps the policy's limits and its totals are the sums over
\* its hops
RouteWithinLimits(self, route, amount) ==
    /\ Len(route.channels) <= self.routing_policy.max_hops
    /\ route.total_timelock = SumOfTimelocks(route.channels)
    /\ route.total_timelock <= self.routing_policy.max_timelock
    /\ route.total_fees = SumOfFees(route.channels)
    /\ route.total_amount = amount + route.total_fees

\* The route keeps the limits and every hop's channel can carry the hop's
\* amount
RouteWithinPolicy(self, route, amount) ==
    /\ RouteWithinLimits(self, route, amount)
    /\ \A i \in 1..Len(route.channels) :
          /\ route.channels[i].channel_id \in DOMAIN self.channels
          /\ self.channels[route.channels[i].channel_id].capacity
                >= route.channels[i].amount

\* C30: a route find_route returns has at most max_hops hops, a
\* total_timelock that is the sum of the hop timelocks and at most
\* max_timelock, total_fees the sum of the hop fees, total_amount the amount
\* plus total_fees, and channels that have capacity for the hop amount when
\* the call returns; it is stored in active_routes under a new id.  A call
\* that returns an error leaves active_routes as it was, find_route changes
\* neither the channels nor the policy, and every stored route keeps the
\* hop and timelock limits and its sums.
C30_RouteWithinPolicy ==
    [][PathCalled("find_route") =>
        /\ rm'.channels = rm.channels
        /\ rm'.routing_policy = rm.routing_policy
        /\ IF pflast'.err = "Ok"
           THEN /\ RouteWithinPolicy(rm, pflast'.value, pflast'.amount)
                /\ \E id \in (DOMAIN rm'.active_routes) \ (DOMAIN rm.active_routes) :
                      /\ rm'.active_routes[id] = pflast'.value
                      /\ DOMAIN rm'.active_routes = DOMAIN rm.active_routes \cup {id}
                /\ \A id \in DOMAIN rm.active_routes :
                      rm'.active_routes[id] = rm.active_routes[id]
           ELSE rm'.active_routes = rm.active_routes
        /\ \A id \in DOMAIN rm'.active_routes :
              LET route == rm'.active_routes[id] IN
              RouteWithinLimits(rm', route, route.total_amount - route.total_fees)]_vars

\* A route of two hops was returned and stored, after a call that was
\* turned down had stored nothing
C30_Witness ==
    /\ pflast.kind = "find_route"
    /\ pflast.err = "Ok"
    /\ Len(pflast.value.channels) = 2
    /\ pflast.value.total_timelock = 2 * HopTimelock
    /\ pflast.value.total_amount = pflast.amount + 2 * HopFee
    /\ pfsteps = 2
    /\ Cardinality(DOMAIN rm.active_routes) = 1


\* The task whose update_channel_state call writes the map in this step
Applies(t) ==
    /\ pc[t] = "u_wait_w"
    /\ pc'[t] = "done"
    /\ channel_states' # channel_states

\* C37: update_channel_state modifies a channel's state only when the
\* sequence check and the signature check both succeed against the state
\* that is replaced, and persist_state_update appends an update only in a
\* step that has applied it.
C37_VerifyApplyPersist ==
    [][/\ \A t \in Tasks :
            Applies(t) =>
                LET replaced == [c \in {op[t].channel_id} |->
                                    channel_states[op[t].channel_id]]
                    update == [op[t].update EXCEPT !.channel_id = op[t].channel_id]
                IN  /\ verify_sequence(replaced, update) = "Ok"
                    /\ verify_state_update_signatures(replaced, update) = "Ok"
       /\ update_log' # update_log =>
            \E t \in Tasks :
                /\ Applies(t)
                /\ update_log' = Append(update_log, op[t].update)
                /\ channel_states'[op[t].channel_id].sequence = op[t].update.sequence]_vars


\* C38: the hops of a route find_route returns form a chain from the
\* requested source to the requested target: the first hop starts at the
\* source, each hop ends where the next one starts, and the last hop ends
\* at the target.
C38_HopsFormChain ==
    (pflast.kind = "find_route" /\ pflast.err = "Ok"
        /\ pflast.value.channels # <<>>) =>
        LET hops == pflast.value.channels IN
        /\ hops[1].source = pflast.source
        /\ \A i \in 1..(Len(hops) - 1) : hops[i].target = hops[i + 1].source
        /\ hops[Len(hops)].target = pflast.target


\* The Pending HTLCs a participant sent
PendingSentBy(self, a) ==
    {i \in PendingHtlcs(self) : self.htlcs[i].sender = a}

\* C39: after any create_htlc and fulfill_htlc calls from a state with no
\* HTLCs and nothing locked, each participant's locked balance is the sum
\* of the amounts of the Pending HTLCs it sent, and its pending_htlcs holds
\* the ids of exactly those HTLCs, each once.
C39_LockedMatchesPending ==
    hs.status # "None" =>
        \A a \in DOMAIN hs.balances :
            LET pending == hs.balances[a].pending_htlcs IN
            /\ hs.balances[a].locked =
                  SumOver([i \in DOMAIN hs.htlcs |-> hs.htlcs[i].amount],
                          PendingSentBy(hs, a))
            /\ SeqToSet(pending) = PendingSentBy(hs, a)
            /\ \A i, j \in 1..Len(pending) : pending[i] = pending[j] => i = j


\* C40: every write of apply_pending_updates that replaces a channel's
\* stored state stores a state of a higher sequence number than the one it
\* replaces.
C40_StoredSequenceIncreases ==
    glast.kind = "apply_pending_updates" =>
        \A i \in 1..Len(glast.written) :
            glast.written[i].replaced =>
                glast.written[i].new > glast.written[i].old


BridgeCalled(k) == gsteps' # gsteps /\ glast'.kind = k

\* C31: a submitted transaction is entered with status Pending under the
\* hash returned to the caller, and the status of an entry changes only
\* from Pending, to Confirmed when the receipt's status is 1 and to Failed
\* otherwise: a Confirmed or Failed entry never changes status again.
C31_StatusOnlyLeavesPending ==
    [][/\ (/\ BridgeCalled("submit")
            /\ glast'.phase = "return"
            /\ glast'.err = "Ok") =>
            /\ glast'.tx_hash \notin DOMAIN bm.pending_transactions
            /\ glast'.tx_hash \in DOMAIN bm'.pending_transactions
            /\ bm'.pending_transactions[glast'.tx_hash].status = "Pending"
            /\ bm'.pending_transactions[glast'.tx_hash].timestamp = bm.now
            /\ \A h \in DOMAIN bm.pending_transactions :
                  /\ h \in DOMAIN bm'.pending_transactions
                  /\ bm'.pending_transactions[h] = bm.pending_transactions[h]
       /\ gsteps' # gsteps =>
            \A h \in DOMAIN bm.pending_transactions
                        \cap DOMAIN bm'.pending_transactions :
                bm'.pending_transactions[h].status
                        # bm.pending_transactions[h].status =>
                    /\ bm.pending_transactions[h].status = "Pending"
                    /\ h \in DOMAIN bm.chain
                    /\ bm'.pending_transactions[h].status =
                          (IF bm.chain[h] = 1 THEN "Confirmed" ELSE "Failed")]_vars

\* C32: a pass of the monitor removes no entry that was Pending when the
\* pass began: such an entry is still Pending, or has left Pending in this
\* pass and is to be kept for the 24 hours that follow.
C32_KeptAfterLeavingPending ==
    [][(/\ BridgeCalled("monitor_pending_transactions")
        /\ glast'.phase = "return"
        /\ bm.monitor.at = "pass") =>
            \A h \in bm.monitor.began :
                h \in DOMAIN bm'.pending_transactions]_vars


StatusEdges ==
    {<<"Initializing", "Active">>, <<"Active", "Closing">>,
     <<"Closing", "Disputed">>, <<"Closing", "Closed">>,
     <<"Disputed", "Closed">>}

ChanMgrCalled(k) == gsteps' # gsteps /\ glast'.kind = k

\* C33: a ChannelManager call changes the status of a channel only along
\* Initializing -> Active, Active -> Closing, Closing -> Disputed,
\* Closing -> Closed and Disputed -> Closed.
C33_StatusFollowsEdges ==
    [][(/\ gsteps' # gsteps
        /\ ChannelZero \in DOMAIN cm.channels
        /\ ChannelZero \in DOMAIN cm'.channels
        /\ cm'.channels[ChannelZero].status
              # cm.channels[ChannelZero].status) =>
            <<cm.channels[ChannelZero].status,
              cm'.channels[ChannelZero].status>> \in StatusEdges]_vars

\* C34: the nonce of a channel counts its accepted updates: a call of
\* update_channel_state that returns Ok leaves the stored nonce one higher
\* than it was, and close_channel and dispute_channel leave it as it was,
\* whatever other calls run at the same time.
C34_NonceCountsUpdates ==
    [][(/\ gsteps' # gsteps
        /\ glast'.kind # "create_channel"
        /\ ChannelZero \in DOMAIN cm.channels) =>
            /\ ChannelZero \in DOMAIN cm'.channels
            /\ cm'.channels[ChannelZero].nonce =
                  IF /\ glast'.kind = "update_channel_state"
                     /\ glast'.phase = "return"
                     /\ glast'.err = "Ok"
                  THEN cm.channels[ChannelZero].nonce + 1
                  ELSE cm.channels[ChannelZero].nonce]_vars


\* The ban of a, recorded before the step, holds over the step: it stays
\* as recorded, a is not in the peer table, and an add_peer for a is
\* rejected with nothing changed
BanHolds(a) ==
    /\ a \notin DOMAIN pm'.peers
    /\ a \in DOMAIN pm'.banned_peers
    /\ pm'.banned_peers[a] = pm.banned_peers[a]
    /\ (glast'.kind = "add_peer" /\ glast'.address = a) =>
          (glast'.err # "Ok" /\ pm' = pm)

\* ban_peer on a known peer removes it from the peer table and records the
\* expiry now + duration
BanRecorded ==
    (glast'.kind = "ban_peer" /\ glast'.address \in DOMAIN pm.peers) =>
        /\ glast'.address \notin DOMAIN pm'.peers
        /\ glast'.address \in DOMAIN pm'.banned_peers
        /\ pm'.banned_peers[glast'.address] = pm.now + glast'.duration

C36_NoTickAfterShutdown ==
    [][mon.shutdown =>
        \A t \in MonitorTasks : mon'.tasks[t].ticks = mon.tasks[t].ticks]_vars
====
